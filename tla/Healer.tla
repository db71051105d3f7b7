------------------------------- MODULE Healer -------------------------------
(***************************************************************************)
(* internal/ingest/heal.go, the workers: each lists the open gaps the      *)
(* healer owns, claims the most recent one no other worker holds, replays  *)
(* one chunk of it from the archives against the registry snapshot of that *)
(* moment, and commits the chunk.  The gap row a worker carries from the   *)
(* listing to the commit is a copy.                                        *)
(*                                                                         *)
(* The equivalence gate that precedes the workers is module HealGate; here *)
(* it has passed.                                                          *)
(***************************************************************************)
EXTENDS Store

CONSTANTS Workers, HealChunk   \* h.workers, h.chunk

ASSUME HealChunkAssumption == HealChunk \in Nat \ {0}

VARIABLES
    snap,       \* the registry snapshot of the ingesting process
    healer      \* worker -> its step

\* listed: the gaps of the listing, range -> watermark read.  In "replay" gap
\* is the claimed range, to the watermark it was listed with, watch the
\* snapshot the chunk is extracted against.
IdleWorker == [pc |-> "idle", listed |-> <<>>, gap |-> <<0, 0>>, to |-> 0, watch |-> <<>>]

HealerTypeOK ==
    /\ IsWatch(snap)
    /\ DOMAIN healer = Workers
    /\ \A w \in Workers :
          /\ healer[w].pc \in {"idle", "listed", "replay"}
          /\ DOMAIN healer[w].listed \subseteq GapId
          /\ \A id \in DOMAIN healer[w].listed : healer[w].listed[id] \in Span(id)
          /\ IsWatch(healer[w].watch)
          /\ healer[w].pc = "replay" =>
                healer[w].gap \in GapId /\ healer[w].to \in Span(healer[w].gap)

HealerInit == healer = [w \in Workers |-> IdleWorker]

\* Deferred gaps are not the healer's.
ReplayGaps == {id \in Open(gaps) : gaps[id].healMode = "replay"}

inFlight == {healer[w].gap : w \in {v \in Workers : healer[v].pc = "replay"}}

ListOpenGaps(w) ==
    /\ healer[w].pc = "idle"
    /\ ReplayGaps # {}
    /\ healer' = [healer EXCEPT ![w] =
                    [IdleWorker EXCEPT !.pc = "listed",
                       !.listed = [id \in ReplayGaps |-> gaps[id].healNextTo]]]
    /\ UNCHANGED <<snap, storeVars>>

claimable(w) == DOMAIN healer[w].listed \ inFlight

\* The first unclaimed gap of a listing ordered by to_sequence, newest first.
claim(w) ==
    /\ healer[w].pc = "listed"
    /\ \E id \in claimable(w) :
          /\ \A other \in claimable(w) : other[2] <= id[2]
          /\ healer' = [healer EXCEPT ![w] =
                          [IdleWorker EXCEPT !.pc = "replay", !.gap = id,
                             !.to = healer[w].listed[id], !.watch = snap]]
    /\ UNCHANGED <<snap, storeVars>>

NothingToClaim(w) ==
    /\ healer[w].pc = "listed"
    /\ claimable(w) = {}
    /\ healer' = [healer EXCEPT ![w] = IdleWorker]
    /\ UNCHANGED <<snap, storeVars>>

\* The chunk's lowest ledger; the floor cuts the last chunk short.
ChunkFrom(id, to) == Max({id[1], to - HealChunk + 1})

healChunk(w) ==
    LET id == healer[w].gap
        from == ChunkFrom(id, healer[w].to)
    IN /\ healer[w].pc = "replay"
       /\ CommitHealChunk(id, from - 1, healer[w].watch, from..healer[w].to)
       /\ healer' = [healer EXCEPT ![w] = IdleWorker]
       /\ UNCHANGED snap

\* The replay or the commit failed, or the gap vanished or resolved under the
\* chunk: the claim is released and the gap listed again.
healChunkFails(w) ==
    /\ healer[w].pc = "replay"
    /\ healer' = [healer EXCEPT ![w] = IdleWorker]
    /\ UNCHANGED <<snap, storeVars>>

Healing == {w \in Workers : healer[w].pc # "idle"}

work(w) ==
    \/ ListOpenGaps(w)
    \/ claim(w)
    \/ NothingToClaim(w)
    \/ healChunk(w)
    \/ healChunkFails(w)

HealerNext == \E w \in Workers : work(w)

=============================================================================
