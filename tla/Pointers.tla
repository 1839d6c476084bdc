------------------------------- MODULE Pointers -------------------------------
(***************************************************************************)
(* What the data structures of DS/ share, so that one module can extend     *)
(* them all.  Where two of them have the same name, that of the heap begins *)
(* with Heap or heap_, that of the hash map with Hash or hash_.             *)
(***************************************************************************)

CONSTANT NULL      (* the null pointer                                    *)
=============================================================================
