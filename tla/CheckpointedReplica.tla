------------------------- MODULE CheckpointedReplica -------------------------
(***************************************************************************)
(* What a KSQLite instance promises a host that follows its rules: a local *)
(* copy of changelogs with a frontier for each, up to which the copy holds *)
(* everything, and a set of partitions that are ready, where it holds all  *)
(* but what the host itself is appending.  Awaits, batches, resets,        *)
(* clamps and the in-memory bookkeeping are not seen here; an append is    *)
(* its record and its effect on the copy, a hook what it adds to the copy  *)
(* and its reveal.                                                         *)
(***************************************************************************)
EXTENDS Integers, Sequences

CONSTANTS TPs,      \* the partitions
          Records   \* what a changelog may hold: [kind, id]

VARIABLES
  log,       \* log[tp]: the changelog, offset o at position o + 1
  start,     \* start[tp]: the first offset retention has kept
  copy,      \* the messages copied, [tp, id]
  frontier,  \* frontier[tp]: the first offset the checkpoint does not cover
  pending,   \* the messages of this host that are written and not copied
  ready,     \* the partitions this host may read and append to
  shown      \* the partitions a reader sees

vars == <<log, start, copy, frontier, pending, ready, shown>>

Message(tp, id) == [tp |-> tp, id |-> id]

(* The messages on tp from offset lo up to, not including, hi. *)
Messages(tp, lo, hi) ==
  {Message(tp, log[tp][i].id) : i \in {j \in (lo + 1)..hi : log[tp][j].kind = "record"}}

(* Everything on tp below offset n has expired, is none of KSQLite's, or is *)
(* among the messages c.                                                   *)
CoveredTo(tp, n, c) ==
  \A i \in (start[tp] + 1)..n :
    log[tp][i].kind = "foreign" \/ Message(tp, log[tp][i].id) \in c

Init ==
  /\ log = [tp \in TPs |-> <<>>]
  /\ start = [tp \in TPs |-> 0]
  /\ copy = {}
  /\ frontier = [tp \in TPs |-> 0]
  /\ pending = {} /\ ready = {} /\ shown = {}

-----------------------------------------------------------------------------
(* The changelog *)

(* Others write, to a ready partition nothing of KSQLite's. *)
OthersWrite(tp, r) ==
  /\ tp \in ready => r.kind = "foreign"
  /\ log' = [log EXCEPT ![tp] = Append(@, r)]
  /\ UNCHANGED <<start, copy, frontier, pending, ready, shown>>

Expire(tp, n) ==
  /\ n \in (start[tp] + 1)..Len(log[tp])
  /\ start' = [start EXCEPT ![tp] = n]
  /\ UNCHANGED <<log, copy, frontier, pending, ready, shown>>

-----------------------------------------------------------------------------
(* An append: first the changelog, again if its producer sends again, then  *)
(* the copy.                                                               *)
Produce(tp, r) ==
  /\ tp \in ready /\ r.kind = "record"
  /\ \A m \in pending : m.tp = tp => m.id = r.id
  /\ log' = [log EXCEPT ![tp] = Append(@, r)]
  /\ pending' = pending \cup {Message(tp, r.id)}
  /\ UNCHANGED <<start, copy, frontier, ready, shown>>

(* The copy gets messages, and with them the frontier may move on to n.     *)
Copies(tp, messages, n) ==
  /\ copy' = copy \cup messages
  /\ frontier' = [frontier EXCEPT ![tp] = IF n > @ THEN n ELSE @]
  /\ n \in 0..Len(log[tp])
  /\ CoveredTo(tp, frontier'[tp], copy')

Apply(tp, n) ==
  /\ n \in 1..Len(log[tp])
  /\ Message(tp, log[tp][n].id) \in pending /\ log[tp][n].kind = "record"
  /\ Copies(tp, Messages(tp, n - 1, n), n)
  /\ pending' = pending \ Messages(tp, n - 1, n)
  /\ UNCHANGED <<log, start, ready, shown>>

(* It fails: the partition has to be replayed before the next one. *)
GiveUp(tp) ==
  /\ tp \in ready
  /\ pending' = {m \in pending : m.tp # tp}
  /\ ready' = ready \ {tp}
  /\ UNCHANGED <<log, start, copy, frontier, shown>>

-----------------------------------------------------------------------------
(* A hook *)

(* It is called, on partitions no append is under way on.                  *)
Withdraw(tps) ==
  /\ \A m \in pending : m.tp \notin tps
  /\ ready' = ready \ tps
  /\ UNCHANGED <<log, start, copy, frontier, pending, shown>>

(* A batch; or nothing, if all up to hi has expired or is there.            *)
Replay(tp, lo, hi) ==
  /\ tp \notin ready
  /\ lo \in 0..hi
  /\ Copies(tp, Messages(tp, lo, hi), hi)
  /\ UNCHANGED <<log, start, pending, ready, shown>>

(* A partition that is ready has everything its changelog has. *)
Reveal(tp) ==
  /\ tp \notin ready
  /\ shown' = shown \cup {tp}
  /\ \/ ready' = ready
     \/ ready' = ready \cup {tp} /\ CoveredTo(tp, Len(log[tp]), copy)
  /\ UNCHANGED <<log, start, copy, frontier, pending>>

Hide(tp) ==
  /\ tp \notin ready
  /\ shown' = shown \ {tp}
  /\ UNCHANGED <<log, start, copy, frontier, pending, ready>>

-----------------------------------------------------------------------------
(* The process ends; the next one shows nothing to begin with. *)
Crash ==
  /\ pending' = {} /\ ready' = {}
  /\ UNCHANGED <<log, start, copy, frontier, shown>>

Restart ==
  /\ ready = {} /\ shown' = {}
  /\ UNCHANGED <<log, start, copy, frontier, pending, ready>>

Next ==
  \/ Crash \/ Restart
  \/ \E tps \in SUBSET TPs : Withdraw(tps)
  \/ \E tp \in TPs :
       \/ GiveUp(tp) \/ Reveal(tp) \/ Hide(tp)
       \/ \E r \in Records : OthersWrite(tp, r) \/ Produce(tp, r)
       \/ \E n \in 0..Len(log[tp]) : Expire(tp, n) \/ Apply(tp, n)
       \/ \E lo, hi \in 0..Len(log[tp]) : Replay(tp, lo, hi)

Spec == Init /\ [][Next]_vars
=============================================================================
