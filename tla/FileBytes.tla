------------------------------ MODULE FileBytes ------------------------------
(***************************************************************************)
(* The bytes of one file and what a single write or truncate makes of      *)
(* them: the arithmetic inside mutate_content (core/content.py).  A byte   *)
(* is a member of the small set Byte: the byte a writer writes is the      *)
(* writer itself, the padding byte is Zero, and the bytes of generated     *)
(* text are members of Text.                                               *)
(***************************************************************************)
EXTENDS Naturals, Sequences

CONSTANTS
  Mutator,     \* callers of mutate_content: FUSE write and truncate handlers
  Text,        \* bytes that only generated text holds
  Zero,        \* the byte "\0" that pads a file grown past its end
  MaxFile,     \* MAX_FILE_BYTES: the length limit of one file
  Request      \* the writes and truncates the callers may ask for

Byte == Mutator \union Text \union {Zero}

\* Contents a file can have: at most MaxFile bytes.
Content == UNION {[1..n -> Byte] : n \in 0..MaxFile}

\* `n` bytes written at offset `at`, or a cut (or growth) to length `at`.
Write == [kind : {"write"}, at : Nat, n : Nat]
Truncate == [kind : {"truncate"}, at : Nat, n : {0}]

ASSUME BytesOK == MaxFile \in Nat /\ Request \subseteq (Write \union Truncate)

\* Where the request ends; beyond MaxFile it is refused with EFBIG.
End(r) == r.at + r.n

Longer(a, b) == IF a >= b THEN a ELSE b

\* Length of the file once request r is applied to old bytes.
NewLength(old, r) ==
  IF r.kind = "truncate" THEN r.at ELSE Longer(Len(old), End(r))

\* The new bytes: m's chunk over the old bytes, Zero where neither reaches.
Mutated(old, r, m) ==
  [i \in 1..NewLength(old, r) |->
     IF r.at < i /\ i <= End(r) THEN m
     ELSE IF i <= Len(old) THEN old[i]
     ELSE Zero]

=============================================================================
