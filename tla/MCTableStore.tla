---------------------------- MODULE MCTableStore ----------------------------
(* TableStore for TLC: threads and pointers are model values.  One thread may   *)
(* be suspended for ever, so they are not interchangeable.                      *)
EXTENDS TableStore
=============================================================================
