-------------------------- MODULE WorkspaceArchive --------------------------
(***************************************************************************)
(* create_workspace_archive: the entries of a committed tree, read one     *)
(* after the other from the stream of one git process, become a tar that   *)
(* takes its name only when it is whole.                                   *)
(***************************************************************************)
EXTENDS Integers, Sequences

CONSTANT MaxTarget  \* the longest target of a symbolic link, 4096 in the code

ASSUME ArchiveAssumption == MaxTarget \in Nat

\* An entry of ls-tree: its mode, its blob, whether the path is portable, and
\* what the blob is as text: "utf8", UTF-8 with a "nul" in it, or "binary".
Modes == {"100644", "100755", "120000", "160000", "other"}

\* git cat-file --batch answers an id with a header, the bytes and a newline.
\* A byte is a pair of the blob and its place there.
ObjectAnswer(e) ==
  IF e.missing THEN <<[token |-> "missing"]>>
  ELSE <<[token |-> "header", blob |-> e.blob, size |-> e.size]>>
       \o [i \in 1..e.size |-> [token |-> "byte", blob |-> e.blob, at |-> i]]
       \o <<[token |-> "newline"]>>

\* All that git writes for these entries; a submodule is not asked for.
Stream(entries) ==
  LET upto[i \in 0..Len(entries)] ==
        IF i = 0 THEN <<>>
        ELSE IF entries[i].mode = "160000" THEN upto[i - 1]
        ELSE upto[i - 1] \o ObjectAnswer(entries[i])
  IN  upto[Len(entries)]

\* What is left to read, the members written, and whether nothing failed.
Start(stream) == [rest |-> stream, tar |-> <<>>, ok |-> TRUE]
Fail(s) == [s EXCEPT !.ok = FALSE]

Add(s, member) == [s EXCEPT !.tar = Append(@, member)]

\* The header must be that of the blob that was asked for.
HeaderFits(s, e) ==
  /\ s.rest # <<>>
  /\ Head(s.rest).token = "header"
  /\ Head(s.rest).blob = e.blob

\* Mutant: a short answer is taken as it is.
ReadUnchecked(s, e, kind) ==
  IF ~HeaderFits(s, e) THEN Fail(s)
  ELSE LET size == Head(s.rest).size
           last == IF Len(s.rest) < size + 1 THEN Len(s.rest) ELSE size + 1
       IN  Add([s EXCEPT !.rest = SubSeq(@, last + 2, Len(@))],
               [kind |-> kind, blob |-> e.blob, content |-> SubSeq(s.rest, 2, last)])

\* Mutant: the newline behind the bytes is left in the stream.
ReadShort(s, e, kind) ==
  IF ~HeaderFits(s, e) \/ Len(s.rest) < Head(s.rest).size + 2 THEN Fail(s)
  ELSE LET size == Head(s.rest).size
       IN  Add([s EXCEPT !.rest = SubSeq(@, size + 2, Len(@))],
               [kind |-> kind, blob |-> e.blob, content |-> SubSeq(s.rest, 2, size + 1)])

\* The bytes of a blob and the newline behind them, or a truncated object.
ReadBlob(s, e, kind) ==
  IF ~HeaderFits(s, e) \/ Len(s.rest) < Head(s.rest).size + 2 THEN Fail(s)
  ELSE LET size == Head(s.rest).size
       IN  Add([s EXCEPT !.rest = SubSeq(@, size + 3, Len(@))],
               [kind |-> kind, blob |-> e.blob, content |-> SubSeq(s.rest, 2, size + 1)])

TooLong(s, e) == HeaderFits(s, e) /\ Head(s.rest).size > MaxTarget

\* Mutant: a target is taken as the bytes that git has of it.
SymlinkOfBytes(s, e) == IF TooLong(s, e) THEN Fail(s) ELSE ReadBlob(s, e, "symlink")

\* The target of a link has to be short, of UTF-8 and without a NUL.
SymlinkTarget(s, e) ==
  IF TooLong(s, e) \/ e.text # "utf8" THEN Fail(s) ELSE ReadBlob(s, e, "symlink")

AddEntry(s, e) ==
  CASE e.mode = "160000" -> Add(s, [kind |-> "directory", blob |-> e.blob, content |-> <<>>])
    [] e.mode = "120000" -> SymlinkTarget(s, e)
    [] e.mode = "100644" -> ReadBlob(s, e, "file")
    [] e.mode = "100755" -> ReadBlob(s, e, "executable")
    [] OTHER -> Fail(s)

\* _tree_entries refuses a tree with a path that is not portable.
Listed(entries) == \A i \in 1..Len(entries) : entries[i].portable

\* A failure ends the loop, and nothing is read of a tree that was refused.
AddAll(entries, stream) ==
  LET after[i \in 0..Len(entries)] ==
        IF i = 0 THEN Start(stream)
        ELSE IF after[i - 1].ok THEN AddEntry(after[i - 1], entries[i]) ELSE after[i - 1]
  IN  IF Listed(entries) THEN after[Len(entries)] ELSE Fail(Start(stream))

\* The destination: nothing yet, or a tar with members.
Nothing == [exists |-> FALSE, members |-> <<>>]
Tar(members) == [exists |-> TRUE, members |-> members]

\* The destination afterwards. git may die after `sent` tokens and may exit
\* with an error although it answered everything.
Create(entries, sent, exited, before) ==
  LET done == AddAll(entries, SubSeq(Stream(entries), 1, sent))
  IN  IF before = Nothing /\ done.ok /\ exited = 0 THEN Tar(done.tar) ELSE before

-----------------------------------------------------------------------------
(* What the archive promises.                                              *)

Kind == [m \in Modes |->
  CASE m = "100644" -> "file" [] m = "100755" -> "executable"
    [] m = "120000" -> "symlink" [] m = "160000" -> "directory" [] OTHER -> "none"]

\* The committed scope as members of a tar, entry by entry.
Members(entries) ==
  [i \in 1..Len(entries) |->
     [kind |-> Kind[entries[i].mode], blob |-> entries[i].blob,
      content |-> IF entries[i].mode = "160000" THEN <<>>
                  ELSE [j \in 1..entries[i].size |->
                          [token |-> "byte", blob |-> entries[i].blob, at |-> j]]]]

\* What a tar cannot say: a header holds text up to the first NUL.
Sayable(entries) ==
  \A i \in 1..Len(entries) : entries[i].mode = "120000" => entries[i].text = "utf8"

\* What takes the archive's name is the whole of the committed scope, and no
\* link in it leads elsewhere than the committed one.
WholeOrNothing(entries, sent, exited, before) ==
  LET after == Create(entries, sent, exited, before)
  IN  after = before \/ (after = Tar(Members(entries)) /\ Sayable(entries))

\* From a git that does its work, every tree is archived whose paths are
\* portable, whose modes are known and whose links are short, of UTF-8 and
\* without a NUL; the files may hold anything.
Representable(entries) ==
  \A i \in 1..Len(entries) :
    LET e == entries[i]
    IN  /\ e.portable /\ ~e.missing /\ e.mode # "other"
        /\ e.mode = "120000" => e.size <= MaxTarget /\ e.text = "utf8"
Archived(entries, sent, exited, before) ==
  Representable(entries) /\ sent = Len(Stream(entries)) /\ exited = 0 /\ before = Nothing
    => Create(entries, sent, exited, before) = Tar(Members(entries))
=============================================================================
