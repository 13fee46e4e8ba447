------------------------------ MODULE RawStore ------------------------------
(***************************************************************************)
(* RawFileStore.put of storage/raw_files.py: several processes store the   *)
(* same bytes, hence the same path, and then refer to it from the ledger.  *)
(* The bytes go to a temporary file, are flushed, and become visible with  *)
(* a hard link that does not replace an existing object.  The directory of *)
(* the path, a shard of the digest's first bytes, is made when it is not   *)
(* there; put flushes that directory, never the ones above it, so the name *)
(* of a new shard stays with the operating system.                         *)
(*                                                                         *)
(* A killed process loses its locals only.  When the host goes down, file  *)
(* data that was not flushed is lost or torn and names that were not       *)
(* flushed with their directory may be gone, a shard's with all it holds;  *)
(* what came through is on the disk.  PostgreSQL keeps what it             *)
(* acknowledged.                                                           *)
(***************************************************************************)
EXTENDS Naturals, FiniteSets

CONSTANTS Writers,
          Faults,      \* "kill", "power", "disk": adverse events that happen
          MaxFaults

ASSUME RawStoreAssumption == MaxFaults \in Nat

VARIABLES shard,       \* the directories of the path: "absent", "named" (made,
                       \* the new names not flushed), "durable"
          target,      \* the object under its path: "absent", "torn", "whole"
          flushed,     \* its directory was flushed since it was linked
          temp,        \* data of a writer's temporary file
          putPc,       \* position of each writer in put
          recorded,    \* ledger rows that refer to the object, by whether
                       \* put had "written" the object or "reused" it, or
                       \* a power loss took its new shard ("orphaned")
          faults

storeVars == <<shard, target, flushed, temp, putPc, recorded, faults>>

StoreInit ==
    /\ shard \in {"absent", "durable"}
    /\ target = "absent" /\ flushed = FALSE
    /\ temp = [v \in Writers |-> "absent"]
    /\ putPc = [v \in Writers |-> "idle"]
    /\ recorded = {}
    /\ faults = 0

Fault(kind) ==
    /\ kind \in Faults
    /\ faults < MaxFaults
    /\ faults' = faults + 1

Goto(v, position) == putPc' = [putPc EXCEPT ![v] = position]

-----------------------------------------------------------------------------

\* mkdir(parents=True, exist_ok=True) of the target's directory.
Put(v) ==
    /\ putPc[v] = "idle"
    /\ shard' = IF shard = "absent" THEN "named" ELSE shard
    /\ Goto(v, "look")
    /\ UNCHANGED <<target, flushed, temp, recorded, faults>>

\* _verify_existing: length and digest of what is there.
Verified == target \in {"whole", "buffered"}

\* target.exists(): an object that verifies is returned as it is.
Look(v) ==
    /\ putPc[v] = "look"
    /\ Goto(v, IF target = "absent" THEN "write"
               ELSE IF Verified THEN "reuse" ELSE "raise")
    /\ UNCHANGED <<shard, target, flushed, temp, recorded, faults>>

Write(v) ==
    /\ putPc[v] = "write"
    /\ temp' = [temp EXCEPT ![v] = "buffered"]
    /\ Goto(v, "fsync")
    /\ UNCHANGED <<shard, target, flushed, recorded, faults>>

\* Mutant: the data is left to the operating system.
NoFsync(v) ==
    /\ putPc[v] = "fsync"
    /\ Goto(v, "link")
    /\ UNCHANGED <<shard, target, flushed, temp, recorded, faults>>

Fsync(v) ==
    /\ putPc[v] = "fsync"
    /\ temp' = [temp EXCEPT ![v] = "whole"]
    /\ Goto(v, "link")
    /\ UNCHANGED <<shard, target, flushed, recorded, faults>>

\* os.link, or FileExistsError and _verify_existing.
Link(v) ==
    /\ putPc[v] = "link"
    /\ IF target = "absent"
       THEN target' = temp[v] /\ flushed' = FALSE /\ Goto(v, "unlink")
       ELSE UNCHANGED <<target, flushed>> /\ Goto(v, IF Verified THEN "unlink" ELSE "raise")
    /\ UNCHANGED <<shard, temp, recorded, faults>>

Unlink(v) ==
    /\ putPc[v] = "unlink"
    /\ temp' = [temp EXCEPT ![v] = "absent"]
    /\ Goto(v, "fsyncdir")
    /\ UNCHANGED <<shard, target, flushed, recorded, faults>>

\* Mutant: put returns without flushing the directory.
NoFsyncDirectory(v) ==
    /\ putPc[v] = "fsyncdir"
    /\ Goto(v, "return")
    /\ UNCHANGED <<shard, target, flushed, temp, recorded, faults>>

\* fsync of target.parent: the object's name, and no name above it.
FsyncDirectory(v) ==
    /\ putPc[v] = "fsyncdir"
    /\ flushed' = (target # "absent")
    /\ Goto(v, "return")
    /\ UNCHANGED <<shard, target, temp, recorded, faults>>

\* put returned; the fetch engine records the observation that refers to it.
Record(v) ==
    /\ putPc[v] \in {"return", "reuse"}
    /\ recorded' = recorded \cup {IF putPc[v] = "return" THEN "written" ELSE "reused"}
    /\ Goto(v, "idle")
    /\ UNCHANGED <<shard, target, flushed, temp, faults>>

\* Any call of put fails: the temporary file is removed.
DiskRaises(v) ==
    /\ putPc[v] \in {"look", "write", "fsync", "link", "unlink", "fsyncdir"}
    /\ Fault("disk")
    /\ Goto(v, "raise")
    /\ UNCHANGED <<shard, target, flushed, temp, recorded>>

Raise(v) ==
    /\ putPc[v] = "raise"
    /\ temp' = [temp EXCEPT ![v] = "absent"]
    /\ Goto(v, "idle")
    /\ UNCHANGED <<shard, target, flushed, recorded, faults>>

\* A killed writer leaves its temporary file, whose name nobody uses again.
Kill(v) ==
    /\ putPc[v] # "idle"
    /\ Fault("kill")
    /\ Goto(v, "idle")
    /\ temp' = [temp EXCEPT ![v] = "absent"]
    /\ UNCHANGED <<shard, target, flushed, recorded>>

\* The name of a new shard is gone with the object in it, the object's own
\* name is gone, or both are still there.
PowerLoss ==
    /\ Fault("power")
    /\ putPc' = [v \in Writers |-> "idle"]
    /\ temp' = [v \in Writers |-> "absent"]
    /\ \/ /\ shard = "named" /\ shard' = "absent" /\ target' = "absent"
          /\ recorded' = {"orphaned" : row \in recorded}
       \/ /\ shard' = IF shard = "named" THEN "durable" ELSE shard
          /\ \/ target' = IF target = "buffered" THEN "torn" ELSE target
             \/ ~flushed /\ target' = "absent"
          /\ UNCHANGED recorded
    /\ flushed' = (target' # "absent")

Step(v) ==
    \/ Look(v) \/ Write(v) \/ Fsync(v) \/ Link(v) \/ Unlink(v)
    \/ FsyncDirectory(v) \/ Record(v) \/ Raise(v)

StoreNext ==
    \/ \E v \in Writers : Put(v) \/ Step(v) \/ DiskRaises(v) \/ Kill(v)
    \/ PowerLoss

StoreSpec == StoreInit /\ [][StoreNext]_storeVars

\* Fetches are retried and every call returns.
StoreFairSpec == StoreSpec /\ \A v \in Writers : WF_storeVars(Put(v) \/ Step(v))

-----------------------------------------------------------------------------
(* Properties.                                                              *)

\* "durably record source bytes": what a put wrote and a ledger row refers to
\* is there, also when the host went down after put had returned.  Two rows do
\* without that: one that reused an object another put had linked a moment
\* ago, whose directory it does not flush, and one whose new shard went down
\* with the host, since no put flushes the shard's name ("orphaned").  And
\* under its path an object is whole: no crash leaves bytes that fail
\* verification and block the content for ever.
RecordedIsStored == target # "torn" /\ ("written" \in recorded => target # "absent")

\* Whatever was interrupted, the content is stored and referred to.
ContentIsStored == []<>(target # "absent" /\ recorded # {})
=============================================================================
