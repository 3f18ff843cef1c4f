------------------------------ MODULE TickLease ------------------------------
(***************************************************************************)
(* The file lease of the control loop: acquireControlLoopLease and         *)
(* releaseControlLoopLease, called around every tick.                      *)
(*                                                                         *)
(* Two things on disk: the file control-loop-lease.json, and the directory *)
(* control-loop.lock, made with mkdir and so by one process at a time.     *)
(* Each read, mkdir and rm is one step.  A write is two: fs.writeFile      *)
(* opens the file, which empties it, and writes its text afterwards, so    *)
(* that a process killed in between leaves an empty file, and of two       *)
(* writers at once the shorter text may end in the tail of the longer.     *)
(* readOptionalJson throws on both, which ends the attempt that reads.     *)
(* The processes are the worker of each gateway's timer, which runs one    *)
(* tick at a time, and the command line.  They all carry the same          *)
(* configured owner name, so what identifies a lease is acquiredAt alone.  *)
(*                                                                         *)
(* Abstracted: the other fields of the file; the tick itself, which is one *)
(* state.                                                                  *)
(***************************************************************************)
EXTENDS Naturals

CONSTANTS
    Proc,        \* processes that run ticks
    LeaseLen,    \* leaseMs
    MaxTime,     \* bound: last instant of the clock
    MaxCrashes   \* bound: crashes in a behaviour

VARIABLES
    clock,
    file,        \* control-loop-lease.json, as far as it parses
    text,        \* whether it does
    lock,        \* whether control-loop.lock exists
    pc,
    now,         \* "now" of the acquisition in progress
    lease,       \* the lease the process holds or releases
    crashes

vars == <<clock, file, text, lock, pc, now, lease, crashes>>

LeaseType == [acquiredAt : Nat, lockedUntil : Nat]

NoLease == [acquiredAt |-> 0, lockedUntil |-> 0]     \* also the missing file

TypeOK ==
    /\ clock \in Nat
    /\ file \in LeaseType
    /\ text \in {"json", "empty", "torn"}
    /\ lock \in BOOLEAN
    /\ pc \in [Proc -> {"idle", "mkdir", "recheck", "rmdir", "mkdir again",
                        "write", "fill", "tick", "check", "write idle",
                        "fill idle", "unlock"}]
    /\ now \in [Proc -> Nat]
    /\ lease \in [Proc -> LeaseType]
    /\ crashes \in Nat

Init ==
    /\ clock = 1
    /\ file = NoLease
    /\ text = "json"
    /\ lock = FALSE
    /\ pc = [p \in Proc |-> "idle"]
    /\ now = [p \in Proc |-> 0]
    /\ lease = [p \in Proc |-> NoLease]
    /\ crashes = 0

Goto(p, label) == pc' = [pc EXCEPT ![p] = label]

Stop(p) ==               \* refused, released or dead: only the disk remains
    /\ Goto(p, "idle")
    /\ now' = [now EXCEPT ![p] = 0]
    /\ lease' = [lease EXCEPT ![p] = NoLease]

-----------------------------------------------------------------------------
(* acquireControlLoopLease                                                 *)

Readable == text = "json"

ReadLease(p) ==
    /\ pc[p] = "idle"
    /\ IF ~Readable \/ file.lockedUntil > clock
       THEN UNCHANGED <<pc, now>>              \* throws, or skipped_lease_held
       ELSE /\ Goto(p, "mkdir")
            /\ now' = [now EXCEPT ![p] = clock]
    /\ UNCHANGED <<clock, file, text, lock, lease, crashes>>

MakeLock(p) ==
    /\ pc[p] = "mkdir"
    /\ lock' = TRUE
    /\ Goto(p, IF lock THEN "recheck" ELSE "write")
    /\ UNCHANGED <<clock, file, text, now, lease, crashes>>

(* The directory exists: is its maker's lease in the file, or is it stale? *)
NeverStale(p) == FALSE   \* faulty variant for TicksGoOn: a lock always counts

SeemsStale(p) == Readable /\ file.lockedUntil <= now[p]

Recheck(p) ==
    /\ pc[p] = "recheck"
    /\ IF SeemsStale(p)
       THEN Goto(p, "rmdir") /\ UNCHANGED <<now, lease>>
       ELSE Stop(p)
    /\ UNCHANGED <<clock, file, text, lock, crashes>>

RemoveStaleLock(p) ==
    /\ pc[p] = "rmdir"
    /\ lock' = FALSE
    /\ Goto(p, "mkdir again")
    /\ UNCHANGED <<clock, file, text, now, lease, crashes>>

MakeLockAgain(p) ==
    /\ pc[p] = "mkdir again"
    /\ lock' = TRUE
    /\ IF lock THEN Stop(p)
               ELSE Goto(p, "write") /\ UNCHANGED <<now, lease>>
    /\ UNCHANGED <<clock, file, text, crashes>>

(* fs.writeFile opens the file and so empties it, when the text to write   *)
(* is already made.                                                        *)
OpenFile(p, l, label) ==
    /\ file' = NoLease
    /\ text' = "empty"
    /\ lease' = [lease EXCEPT ![p] = l]
    /\ Goto(p, label)

OpenLease(p) ==
    /\ pc[p] = "write"
    /\ OpenFile(p, [acquiredAt |-> clock, lockedUntil |-> now[p] + LeaseLen], "fill")
    /\ now' = [now EXCEPT ![p] = 0]
    /\ UNCHANGED <<clock, lock, crashes>>

(* The text lands at the start of the file.  What another process wrote    *)
(* there since is covered by it, or its tail remains.                      *)
FillFile(p) ==
    \/ file' = lease[p] /\ text' = "json"
    \/ text # "empty" /\ file' = NoLease /\ text' = "torn"

WriteLease(p) ==
    /\ pc[p] = "fill"
    /\ FillFile(p)
    /\ Goto(p, "tick")
    /\ UNCHANGED <<clock, lock, now, lease, crashes>>

-----------------------------------------------------------------------------
(* The tick ends, and releaseControlLoopLease.                             *)

EndTick(p) ==
    /\ pc[p] = "tick"
    /\ Goto(p, "check")
    /\ UNCHANGED <<clock, file, text, lock, now, lease, crashes>>

CheckLease(p) ==
    /\ pc[p] = "check"
    /\ IF Readable /\ file.acquiredAt = lease[p].acquiredAt
       THEN Goto(p, "write idle") /\ UNCHANGED <<now, lease>>
       ELSE Stop(p)
    /\ UNCHANGED <<clock, file, text, lock, crashes>>

OpenIdleLease(p) ==
    /\ pc[p] = "write idle"
    /\ OpenFile(p, [lease[p] EXCEPT !.lockedUntil = clock], "fill idle")
    /\ UNCHANGED <<clock, lock, now, crashes>>

WriteIdleLease(p) ==
    /\ pc[p] = "fill idle"
    /\ FillFile(p)
    /\ Goto(p, "unlock")
    /\ UNCHANGED <<clock, lock, now, lease, crashes>>

ReleaseAndEnd(p) ==      \* faulty variant for TypeOK: it never ticks again
    /\ pc[p] = "unlock"
    /\ lock' = FALSE
    /\ Goto(p, "released")
    /\ UNCHANGED <<clock, file, text, now, lease, crashes>>

Unlock(p) ==
    /\ pc[p] = "unlock"
    /\ lock' = FALSE
    /\ Stop(p)
    /\ UNCHANGED <<clock, file, text, crashes>>

-----------------------------------------------------------------------------
Crash(p) ==              \* killed by the worker's kill timer, or a throw
    /\ pc[p] # "idle"
    /\ crashes < MaxCrashes
    /\ crashes' = crashes + 1
    /\ Stop(p)
    /\ UNCHANGED <<clock, file, text, lock>>

TimePasses ==
    /\ clock < MaxTime
    /\ clock' = clock + 1
    /\ UNCHANGED <<file, text, lock, pc, now, lease, crashes>>

Step(p) ==
    \/ ReadLease(p) \/ MakeLock(p) \/ Recheck(p) \/ RemoveStaleLock(p)
    \/ MakeLockAgain(p) \/ OpenLease(p) \/ WriteLease(p)
    \/ EndTick(p) \/ CheckLease(p)
    \/ OpenIdleLease(p) \/ WriteIdleLease(p) \/ Unlock(p)

Next ==
    \/ \E p \in Proc : Step(p)
    \/ \E p \in Proc : Crash(p)
    \/ TimePasses

Spec == Init /\ [][Next]_vars

(* Time as the progress run needs it (ControlLoop): the lease in the file  *)
(* keeps every process out.                                                *)
LeaseBlocksAll ==
    /\ file.lockedUntil > clock
    /\ \A p \in Proc : pc[p] = "idle"

-----------------------------------------------------------------------------
(* The one way out of the loop for good: the file stays without a text     *)
(* that parses.                                                            *)
LockedOut == <>[](~Readable)

(* The loop never stays locked out by anything but an unreadable file:     *)
(* whatever lease and lock directory dead processes leave behind, and      *)
(* whoever removes whose directory, some later tick acquires the lease.    *)
TicksGoOn == []<>(\E p \in Proc : pc[p] = "tick") \/ LockedOut
=============================================================================
