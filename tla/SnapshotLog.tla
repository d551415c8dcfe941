----------------------------- MODULE SnapshotLog -----------------------------
(***************************************************************************)
(* What the snapshot store promises to those who read it, without files,   *)
(* lines, processes or crashes: a set of snapshots that can be read.  New  *)
(* ones join it; one that was written to its end stays until its whole day *)
(* is older than the retention window.                                     *)
(***************************************************************************)
EXTENDS Naturals

CONSTANTS DayTicks,   \* the length of a local day
          Retention   \* the shortest --retention-hours in use, in ticks

VARIABLES now,       \* the clock
          readable   \* snapshots a reader finds: id, capture time, written to the end

DayOf(t) == t \div DayTicks

\* PruneDataDirByAge: the end of the day lies before the cutoff.
Expired(d, t) == (d + 1) * DayTicks + Retention < t

LogInit == now = 0 /\ readable = {}

PassTime ==
    /\ now' > now
    /\ UNCHANGED readable

\* A snapshot is on disk, though perhaps not yet the last byte of its line.  It
\* is the newest.
Write(e) ==
    /\ e.at <= now
    /\ \A r \in readable : r.id < e.id /\ r.at <= e.at
    /\ readable' = readable \cup {e}
    /\ UNCHANGED now

\* The last byte of the line is there.
Finish(e) ==
    /\ ~e.done
    /\ readable' = (readable \ {e}) \cup {[e EXCEPT !.done = TRUE]}
    /\ UNCHANGED now

\* One that was never finished may become unreadable, when the next begins.
Spoil(e) ==
    /\ ~e.done
    /\ readable' = readable \ {e}
    /\ UNCHANGED now

\* A whole day goes.
Expire(d) ==
    /\ Expired(d, now)
    /\ readable' = {e \in readable : DayOf(e.at) # d}
    /\ UNCHANGED now

LogNext ==
    \/ PassTime
    \/ \E e \in readable' \ readable : Write(e)
    \/ \E e \in readable : Finish(e) \/ Spoil(e)
    \/ \E d \in {DayOf(e.at) : e \in readable} : Expire(d)

LogSpec == LogInit /\ [][LogNext]_<<now, readable>>
=============================================================================
