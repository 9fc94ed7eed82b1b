------------------------------ MODULE MCSelect ------------------------------
(* An unbuffered channel u and a buffered one, b, at the lower address.      *)
EXTENDS Select, TLC

CONSTANTS u, b, Size

MCCap   == [c \in Chans |-> IF c = b THEN Size ELSE 0]
MCAddr  == [c \in Chans |-> IF c = b THEN 1 ELSE 2]

(* Sends, receives and closes of the buffered channel, blocking or not. *)
ChanOps   == { Call1(b, "send"), Try1(b, "send"), Call1(b, "recv"), Try1(b, "recv"),
               Call1(b, "close") }

(* Selects of both channels, listed in either order, and of one channel twice. *)
SelectOps == { Call1(u, "send"), Call1(b, "send"), Call1(u, "close"), Try1(b, "recv"),
               Try1(u, "recv"),
               Select(<< Case(u, "send"), Case(b, "recv") >>, TRUE),
               Select(<< Case(u, "recv"), Case(u, "send") >>, TRUE),
               Select(<< Case(b, "send"), Case(u, "recv") >>, FALSE) }

(* A non-blocking send on the unbuffered channel, which is closed under it. *)
DefaultOps == { Try1(u, "send"), Call1(u, "recv"), Call1(u, "close") }

Symmetry == Permutations(Procs)
=============================================================================
