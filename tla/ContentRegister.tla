--------------------------- MODULE ContentRegister ---------------------------
(***************************************************************************)
(* What the content store promises: each file is a register whose bytes    *)
(* change only by whole, atomic steps.  A file without bytes may be filled *)
(* once by generated text; a write or a truncate is applied to the bytes   *)
(* the file has at that instant and is charged to the session's budget;    *)
(* a removed file loses its bytes.  Nothing here is a Redis key, a lease   *)
(* or a retry: FileContent implements this module.                         *)
(***************************************************************************)
EXTENDS FileBytes

CONSTANTS
  File,        \* inode numbers of regular files
  Generated,   \* texts a generator may produce
  MaxBytes,    \* MAX_SESSION_BLOB_BYTES
  NoContent,   \* the file exists and has no bytes yet
  Gone         \* the file was removed

VARIABLES
  content,     \* file -> its bytes, NoContent or Gone
  charged      \* bytes of every version ever written in the session

vars == <<content, charged>>

Old(f) == IF content[f] = NoContent THEN <<>> ELSE content[f]

Init ==
  /\ content = [f \in File |-> NoContent]
  /\ charged = 0

Fill(f) ==
  /\ content[f] = NoContent
  /\ \E text \in Generated : content' = [content EXCEPT ![f] = text]
  /\ UNCHANGED charged

Mutate(f, m, r) ==
  /\ content[f] # Gone
  /\ End(r) <= MaxFile
  /\ LET new == Mutated(Old(f), r, m) IN
       /\ charged + Len(new) <= MaxBytes
       /\ charged' = charged + Len(new)
       /\ content' = [content EXCEPT ![f] = new]

Remove(f) ==
  /\ content[f] # Gone
  /\ content' = [content EXCEPT ![f] = Gone]
  /\ UNCHANGED charged

\* An attribute change that raced the removal leaves an empty, unnamed file.
Reappear(f) ==
  /\ content[f] = Gone
  /\ content' = [content EXCEPT ![f] = NoContent]
  /\ UNCHANGED charged

Next ==
  \E f \in File :
    \/ Fill(f)
    \/ \E m \in Mutator, r \in Request : Mutate(f, m, r)
    \/ Remove(f)
    \/ Reappear(f)

Spec == Init /\ [][Next]_vars

=============================================================================
