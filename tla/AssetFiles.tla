----------------------------- MODULE AssetFiles -----------------------------
(***************************************************************************)
(* The two files of one generated logo: the image, written before its      *)
(* record is, and the WebP preview that a warm-up thread and the threads   *)
(* of customers' requests derive from it, whichever comes first.           *)
(*                                                                         *)
(* A file is written by opening, which empties it, and filling it; another *)
(* thread may look in between, and a full disk or a crash may leave it so. *)
(***************************************************************************)
EXTENDS Naturals

CONSTANTS
  Threads,
  NoThread,
  MaxMishaps \* bound: failed writes and stops of the process

ASSUME FilesAssumption == NoThread \notin Threads /\ MaxMishaps \in Nat

VARIABLES
  image,    \* the original file
  recorded, \* its asset record is committed
  preview,  \* the preview file
  lock,     \* who holds the asset's thumbnail lock
  thread,   \* how far a thread has come
  seen,     \* history: the previews customers were shown
  mishaps

filesVars == <<image, recorded, preview, lock, thread, seen, mishaps>>

File == {"none", "part", "whole"}

FilesInit ==
  /\ image = "none"
  /\ recorded = FALSE
  /\ preview = "none"
  /\ lock = NoThread
  /\ thread = [t \in Threads |-> [pc |-> "off", warms |-> FALSE]]
  /\ seen = {}
  /\ mishaps = 0

Goes(t, pc) == thread' = [thread EXCEPT ![t].pc = pc]
Leaves(t) == thread' = [thread EXCEPT ![t] = [pc |-> "off", warms |-> FALSE]]

\* LocalFallbackAssetStorage.write and the warm-up of create_generated_logo.
CreateGeneratedLogo(t) ==
  /\ image = "none" /\ thread[t].pc = "off"
  /\ image' = "whole"
  /\ thread' = [thread EXCEPT ![t] = [pc |-> "look", warms |-> TRUE]]
  /\ UNCHANGED <<recorded, preview, lock, seen, mishaps>>

\* Its caller commits, whether the warm-up has finished or not.
Record ==
  /\ image = "whole" /\ ~recorded
  /\ recorded' = TRUE
  /\ UNCHANGED <<image, preview, lock, thread, seen, mishaps>>

\* read_generated_logo, thumbnail
ReadGeneratedLogo(t) ==
  /\ recorded /\ thread[t].pc = "off"
  /\ Goes(t, "look")
  /\ UNCHANGED <<image, recorded, preview, lock, seen, mishaps>>

\* target.is_file(), without the lock.
Look(t) ==
  /\ thread[t].pc = "look"
  /\ IF preview = "none" THEN Goes(t, "wait")
     ELSE IF thread[t].warms THEN Leaves(t) ELSE Goes(t, "read")
  /\ UNCHANGED <<image, recorded, preview, lock, seen, mishaps>>

\* target.read_bytes()
ReadPreview(t) ==
  /\ thread[t].pc = "read"
  /\ seen' = seen \union {preview}
  /\ Leaves(t)
  /\ lock' = IF lock = t THEN NoThread ELSE lock
  /\ UNCHANGED <<image, recorded, preview, mishaps>>

\* Mutant: no second look.
LookOnce(t) ==
  /\ thread[t].pc = "wait" /\ lock = NoThread
  /\ lock' = t
  /\ Goes(t, "open")
  /\ UNCHANGED <<image, recorded, preview, seen, mishaps>>

\* The second look, under the lock.
LookAgain(t) ==
  /\ thread[t].pc = "wait" /\ lock = NoThread
  /\ IF preview # "none" /\ thread[t].warms
     THEN Leaves(t) /\ UNCHANGED lock
     ELSE /\ lock' = t
          /\ Goes(t, IF preview = "none" THEN "open" ELSE "read")
  /\ UNCHANGED <<image, recorded, preview, seen, mishaps>>

Open(t) ==
  /\ thread[t].pc = "open"
  /\ preview' = "part"
  /\ Goes(t, "fill")
  /\ UNCHANGED <<image, recorded, lock, seen, mishaps>>

\* A reader is answered with the preview it made.
Fill(t) ==
  /\ thread[t].pc = "fill"
  /\ preview' = "whole"
  /\ seen' = IF thread[t].warms THEN seen ELSE seen \union {"whole"}
  /\ lock' = NoThread
  /\ Leaves(t)
  /\ UNCHANGED <<image, recorded, mishaps>>

\* OSError: a reader is answered that there is no such logo.
FillFails(t) ==
  /\ thread[t].pc = "fill" /\ mishaps < MaxMishaps
  /\ mishaps' = mishaps + 1
  /\ lock' = NoThread
  /\ Leaves(t)
  /\ UNCHANGED <<image, recorded, preview, seen>>

\* The locks are in memory, the files stay.
Crash ==
  /\ mishaps < MaxMishaps
  /\ mishaps' = mishaps + 1
  /\ lock' = NoThread
  /\ thread' = [t \in Threads |-> [pc |-> "off", warms |-> FALSE]]
  /\ UNCHANGED <<image, recorded, preview, seen>>

FilesNext ==
  \/ \E t \in Threads :
       \/ CreateGeneratedLogo(t) \/ ReadGeneratedLogo(t) \/ Look(t) \/ ReadPreview(t)
       \/ LookAgain(t) \/ Open(t) \/ Fill(t) \/ FillFails(t)
  \/ Record
  \/ Crash

FilesSpec == FilesInit /\ [][FilesNext]_filesVars

-----------------------------------------------------------------------------
(* Properties.                                                             *)

\* The types of every variable.
FilesTypeOK ==
  /\ image \in File /\ preview \in File /\ recorded \in BOOLEAN
  /\ lock \in Threads \union {NoThread}
  /\ thread \in [Threads -> [pc : {"off", "look", "read", "wait", "open", "fill"},
                           warms : BOOLEAN]]
  /\ seen \subseteq File
  /\ mishaps \in 0..MaxMishaps

\* However many ask for it at once, a preview that is whole is never opened for
\* writing again (read_thumbnail, write_thumbnail).
PreviewStaysWhole == [][preview = "whole" => preview' = "whole"]_filesVars

\* "Return a persisted WebP preview, deriving it locally on first request": what a
\* customer is shown is a whole preview.
ShownPreviewIsWhole == seen \subseteq {"whole"}

=============================================================================
