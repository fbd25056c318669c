----------------------------- MODULE BoundedQueue -----------------------------
(***************************************************************************)
(* The one data structure every subscriber of services/event_stream.py     *)
(* owns: an asyncio.Queue of bounded size that is never allowed to refuse  *)
(* an item.  A put on a full queue discards the oldest item first, so the  *)
(* queue always holds the most recent items.                               *)
(***************************************************************************)
EXTENDS Integers, Sequences

Least(a, b)    == IF a < b THEN a ELSE b
Greatest(a, b) == IF a < b THEN b ELSE a

(* The most recent items of s that a queue of n slots can hold. *)
Latest(s, n) == SubSeq(s, Len(s) - Least(n, Len(s)) + 1, Len(s))

(* What Latest leaves out: the oldest items of s. *)
Overflow(s, n) == SubSeq(s, 1, Len(s) - Least(n, Len(s)))
=============================================================================
