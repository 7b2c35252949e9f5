--------------------------- MODULE FileLifecycle ---------------------------
(***************************************************************************)
(* What the file-storage module promises about the files of a tenant, with *)
(* no word about transactions, snapshots, the binary store or the queue: a *)
(* file is born PENDING in a slot (a resource and a purpose), a slot holds *)
(* at most one live file, every version is judged before the file becomes  *)
(* available, the versions of a file only grow, and a deleted file never   *)
(* comes back.  FileStorage implements it (FileStorage!Lifecycle).         *)
(***************************************************************************)
EXTENDS Sequences

CONSTANTS Files,     \* file identifiers (UUIDs)
          Slots,     \* resources a file of one purpose can be attached to
          Contents,  \* binaries, told apart by their checksum
          NoFile     \* no row with this identifier

VARIABLE life        \* life[f]: what the outside world can know of file f

State == [status : {"PENDING", "READY", "INFECTED", "DELETED"},
          slot : Slots, history : Seq(Contents)]

Live(f) == life[f] # NoFile /\ life[f].status # "DELETED"
Free(s) == \A f \in Files : Live(f) => life[f].slot # s
Judged(f) == life[f] # NoFile /\ life[f].status \in {"READY", "INFECTED"}

Init == life = [f \in Files |-> NoFile]

(* An upload: the slot must be free, the first version awaits its scan. *)
Create(f, s, c) ==
    /\ life[f] = NoFile
    /\ Free(s)
    /\ life' = [life EXCEPT ![f] =
                  [status |-> "PENDING", slot |-> s, history |-> <<c>>]]

(* The antivirus judges the latest version. *)
Judge(f, verdict) ==
    /\ life[f] # NoFile
    /\ life[f].status = "PENDING"
    /\ life' = [life EXCEPT ![f].status = verdict]

(* A later scan of a READY file finds malware. *)
Condemn(f) ==
    /\ life[f] # NoFile
    /\ life[f].status = "READY"
    /\ life' = [life EXCEPT ![f].status = "INFECTED"]

(* A new version: the file awaits a scan again. *)
Replace(f, c) ==
    /\ Judged(f)
    /\ life' = [life EXCEPT ![f].status = "PENDING",
                            ![f].history = Append(@, c)]

Move(f, s) ==
    /\ Judged(f)
    /\ Free(s)
    /\ life' = [life EXCEPT ![f].slot = s]

(* Deleted by its owner, or because its binaries are gone. *)
Remove(f) ==
    /\ Live(f)
    /\ life' = [life EXCEPT ![f].status = "DELETED"]

Next ==
    \E f \in Files :
        \/ \E s \in Slots, c \in Contents : Create(f, s, c)
        \/ \E verdict \in {"READY", "INFECTED"} : Judge(f, verdict)
        \/ Condemn(f)
        \/ \E c \in Contents : Replace(f, c)
        \/ \E s \in Slots : Move(f, s)
        \/ Remove(f)

Spec == Init /\ [][Next]_life
=============================================================================
