-------------------------- MODULE CommitResolution --------------------------
(***************************************************************************)
(* resolve_repository, the fetch of _materialize_remote and the checkout:  *)
(* from the target and --ref of a check to the commit that is tested,      *)
(* while the refs of the remote move between the request that resolves     *)
(* them and the fetch.                                                     *)
(*                                                                         *)
(* Objects are two commits, c1 and c2, and an annotated tag t1 of c1.  The *)
(* remote has a branch and a tag of one name, the branch being its default *)
(* one, and the head of a pull request.                                    *)
(***************************************************************************)
EXTENDS Naturals, Sequences

CONSTANT Commits

\* The annotated tag of a commit is an object of its own.
TagOf(c) == <<"tag", c>>
Tags     == {TagOf(c) : c \in Commits}
Objects  == Commits \cup Tags
NoObject == <<"none">>
Peeled(o) == IF o \in Tags THEN o[2] ELSE o

Names == {"heads/n", "tags/n", "pull/1/head"}
\* What the refs of a remote name at some time.
Remotes ==
  {refs \in [Names -> {NoObject} \cup Objects] : \A n \in Names \ {"tags/n"} : refs[n] \notin Tags}

\* A ref as it is asked for: the default branch, a short name, a full one, an id.
NoRef    == [kind |-> "none"]
Short    == [kind |-> "short"]
Full(n)  == [kind |-> "full", name |-> n]
Id(o)    == [kind |-> "id", object |-> o]
Refs     == {NoRef, Short} \cup {Full(n) : n \in Names} \cup {Id(o) : o \in Objects}
\* The ref that a commit or pull-request URL names.
UrlRefs  == {NoRef, Full("pull/1/head")} \cup {Id(c) : c \in Commits}

-----------------------------------------------------------------------------
Failed == [sha |-> NoObject, ref |-> NoRef]
Repository(sha, ref) == IF sha = NoObject THEN Failed ELSE [sha |-> sha, ref |-> ref]

\* The candidates of a short name in their order: branch, peeled tag, tag.
Candidates(ref, remote) ==
  IF ref.kind = "full" THEN <<remote[ref.name]>>
  ELSE <<remote["heads/n"], Peeled(remote["tags/n"]), remote["tags/n"]>>

ResolveGithub(ref, remote) ==
  CASE ref.kind = "none" -> Repository(remote["heads/n"], Short)
    [] ref.kind = "id" -> Repository(ref.object, ref)
    [] OTHER -> LET there == {i \in DOMAIN Candidates(ref, remote) :
                                Candidates(ref, remote)[i] # NoObject}
                IN  IF there = {} THEN Failed
                    ELSE Repository(Candidates(ref, remote)[CHOOSE i \in there :
                                      \A j \in there : i <= j], ref)

\* --ref cannot be combined with a URL that names one.
ResolveRepository(url, ref, remote) ==
  IF url # NoRef /\ ref # NoRef THEN Failed
  ELSE ResolveGithub(IF ref # NoRef THEN ref ELSE url, remote)

-----------------------------------------------------------------------------
\* git reads a short name its own way, and serves an id only while it has it.
GitReads(ref, remote, served) ==
  CASE ref.kind = "short" -> IF remote["tags/n"] # NoObject THEN remote["tags/n"] ELSE remote["heads/n"]
    [] ref.kind = "full" -> remote[ref.name]
    [] ref.kind = "id" -> IF ref.object \in served THEN ref.object ELSE NoObject
\* git fetch: the object and what it is a tag of; nothing if it fails.
FetchShallow(ref, remote, served) ==
  LET o == GitReads(ref, remote, served) IN IF o = NoObject THEN {} ELSE {o, Peeled(o)}

\* Mutant: no second fetch, by the id.
MaterializeOnce(repository, remote, served) == FetchShallow(repository.ref, remote, served)

\* The objects in the checkout; a first fetch that fails is not made up for.
MaterializeRemote(repository, remote, served) ==
  LET first == FetchShallow(repository.ref, remote, served)
  IN  IF first = {} \/ repository.sha \in first \/ repository.ref = Id(repository.sha) THEN first
      ELSE first \cup FetchShallow(Id(repository.sha), remote, served)

\* The commit HEAD is at, or NoObject for an error.  The checkout of the root
\* peels a tag, update-ref of a component takes nothing but a commit.
CompleteMaterialization(repository, objects, component) ==
  IF repository.sha \notin objects THEN NoObject
  ELSE IF component THEN (IF repository.sha \in Commits THEN repository.sha ELSE NoObject)
  ELSE Peeled(repository.sha)

-----------------------------------------------------------------------------
\* A check of a GitHub target: the refs when they are resolved, the refs and the
\* objects the remote has when they are fetched.
CheckedOut(x) ==
  LET repository == ResolveRepository(x.url, x.ref, x.before)
  IN  IF repository = Failed THEN NoObject
      ELSE CompleteMaterialization(repository,
             MaterializeRemote(repository, x.after, x.served), x.component)

\* What the target means at a time: a branch goes before a tag of its name.
Meant(x, remote) ==
  LET ref == IF x.ref # NoRef THEN x.ref ELSE x.url
  IN  CASE ref.kind = "id" -> Peeled(ref.object)
        [] ref.kind = "full" -> Peeled(remote[ref.name])
        [] ref.kind = "none" -> remote["heads/n"]
        [] ref.kind = "short" -> IF remote["heads/n"] # NoObject THEN remote["heads/n"]
                                 ELSE Peeled(remote["tags/n"])

(* The check is of the commit the target meant when it was resolved, or of *)
(* none; and it is of one wherever the ref is still there in some form and *)
(* the remote still has the commit, but for a component under a tag object.*)
ExactCommitChecked(x) ==
  LET repository == ResolveRepository(x.url, x.ref, x.before)
      asked      == repository.ref
  IN  /\ CheckedOut(x) # NoObject =>
           CheckedOut(x) = Meant(x, x.before) /\ Peeled(repository.sha) = CheckedOut(x)
      /\ /\ repository # Failed
         /\ repository.sha \in x.served
         /\ GitReads(asked, x.after, x.served) # NoObject
         /\ x.component => repository.sha \in Commits
         => CheckedOut(x) # NoObject

(* A target that is resolved by a request is resolved to a commit.         *)
ResolvesToCommit(x) ==
  LET repository == ResolveRepository(x.url, x.ref, x.before)
  IN  repository # Failed /\ repository.ref.kind # "id" => repository.sha \in Commits
=============================================================================
