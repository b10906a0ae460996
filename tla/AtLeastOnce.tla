---------------------------- MODULE AtLeastOnce -----------------------------
(***************************************************************************)
(* What the CDC ingestion promises to those who read the bronze layer, and *)
(* all it promises: at-least-once delivery of whole changes.               *)
(*                                                                         *)
(* The lake may gain and lose records freely, in whatever order a batch, a *)
(* crash and a replay bring about, as long as it holds nothing but changes *)
(* of committed transactions after the slot was created, and keeps all of  *)
(* those up to the acknowledged position. The position moves, forward or   *)
(* back, only to where that holds already.                                 *)
(*                                                                         *)
(* CdcConsumer implements this specification.                              *)
(***************************************************************************)
EXTENDS ChangeStream

VARIABLES
  committed,   \* transactions of the source
  from,        \* position from which changes are captured, or -1
  acked,       \* position up to which the source need not send again
  lake         \* records that readers find

vars == <<committed, from, acked, lake>>

Captured == {t \in committed : from >= 0 /\ from < t.commit}

CompleteUpTo(c, L) == \A t \in Captured : t.commit <= c => RecordsOf(t) \subseteq L

Init == committed = {} /\ from = -1 /\ acked = -1 /\ lake = {}

Commit ==
  /\ \E t \in committed' : Extends(t, committed, from) /\ committed' = committed \cup {t}
  /\ UNCHANGED <<from, acked, lake>>

Attach ==
  /\ from = -1
  /\ from' \in 0 .. MaxLsn
  /\ \A t \in committed : t.commit <= from'
  /\ acked' = from'
  /\ UNCHANGED <<committed, lake>>

Ingest ==
  /\ lake' \subseteq UNION {RecordsOf(t) : t \in Captured}
  /\ CompleteUpTo(acked, lake')
  /\ UNCHANGED <<committed, from, acked>>

Acknowledge ==
  /\ acked' = from \/ \E t \in Captured : acked' = t.commit
  /\ CompleteUpTo(acked', lake)
  /\ UNCHANGED <<committed, from, lake>>

Next == Commit \/ Attach \/ Ingest \/ Acknowledge

Spec == Init /\ [][Next]_vars
=============================================================================
