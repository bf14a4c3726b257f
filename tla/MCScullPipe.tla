------------------------------ MODULE MCScullPipe ------------------------------
(***************************************************************************)
(* The pipe on a small instance: two readers, so that one can empty the    *)
(* pipe under the other, a writer, and a buffer that wraps.                *)
(***************************************************************************)
EXTENDS ScullPipe
=============================================================================
