------------------------------ MODULE OciMerge ------------------------------
(***************************************************************************)
(* merge_archives(): two verified single-platform archives become one      *)
(* multi-platform archive.  The inputs are read several times (inventory,  *)
(* graph, copy) while something may rewrite them in place; mergers race    *)
(* for the output name and may die at any point.                           *)
(***************************************************************************)
EXTENDS OciArchive

CONSTANTS
  Platforms,   \* <<"amd64", "arm64">>
  Archives,    \* what an input file may hold
  Version,     \* the version label asked for
  Mergers,     \* processes
  MaxRewrites, \* rewrites of input files
  NoOutput

\* The platforms differ; an archive is a root, digests and the corrupt ones of them.
ASSUME OciAssumption ==
  /\ Len(Platforms) \in Nat \ {0} /\ DOMAIN Platforms = 1 .. Len(Platforms)
  /\ \A i, j \in DOMAIN Platforms : Platforms[i] = Platforms[j] => i = j
  /\ \A a \in Archives : a = [root |-> a.root, has |-> a.has, bad |-> a.bad]

VARIABLES
  input,      \* the input files: [archive, stamp], stamp for size, mtime and ctime
  merger,     \* the processes
  output,     \* the published archive
  rewrites

ociVars == <<input, merger, output, rewrites>>

NewMerger == [pc |-> "start", i |-> 1, stamp |-> <<>>, blobs |-> <<>>, leaves |-> {},
          has |-> {}, bad |-> {}]

OciInit ==
  /\ input \in [DOMAIN Platforms -> [archive : Archives, stamp : {0}]]
  /\ merger = [m \in Mergers |-> NewMerger]
  /\ output = NoOutput
  /\ rewrites = 0

In(m) == input[merger[m].i].archive
Merger(m, s) == merger' = [merger EXCEPT ![m] = s]
MergeFails(m) == Merger(m, [NewMerger EXCEPT !.pc = "failed"])

\* The existence check before any work.
StartMerge(m) ==
  /\ merger[m].pc = "start"
  /\ IF output = NoOutput THEN Merger(m, [merger[m] EXCEPT !.pc = "open"]) ELSE MergeFails(m)
  /\ UNCHANGED <<input, output, rewrites>>

\* Archive.__init__: the descriptor and its first fstat ...
Open(m) ==
  /\ merger[m].pc = "open"
  /\ Merger(m, [merger[m] EXCEPT !.pc = "inventory", !.stamp = Append(@, input[merger[m].i].stamp)])
  /\ UNCHANGED <<input, output, rewrites>>

\* ... every member of the tar ...
Inventory(m) ==
  /\ merger[m].pc = "inventory"
  /\ IF ValidInventory(In(m))
     THEN Merger(m, [merger[m] EXCEPT !.pc = "walk", !.blobs = Append(@, In(m))])
     ELSE MergeFails(m)
  /\ UNCHANGED <<input, output, rewrites>>

\* ... the graph from index.json, in the blobs of the inventory ...
Walk(m) ==
  LET s == merger[m]
      a == [In(m) EXCEPT !.has = s.blobs[s.i].has]
  IN /\ s.pc = "walk"
     /\ IF ValidGraph(a, Platforms[s.i], Version)
        THEN Merger(m, [s EXCEPT !.pc = "recheck", !.leaves = @ \cup Leaves(a)])
        ELSE MergeFails(m)
     /\ UNCHANGED <<input, output, rewrites>>

\* Mutant: the inputs are not compared again.
NeverChanged(m, i) == TRUE

ArchiveUnchanged(m, i) == input[i].stamp = merger[m].stamp[i]

\* ... and unchanged().
RecheckArchive(m) ==
  LET s == merger[m] IN
  /\ s.pc = "recheck"
  /\ IF ArchiveUnchanged(m, s.i)
     THEN Merger(m, IF s.i = Len(Platforms) THEN [s EXCEPT !.pc = "copy", !.i = 1]
                  ELSE [s EXCEPT !.pc = "open", !.i = @ + 1])
     ELSE MergeFails(m)
  /\ UNCHANGED <<input, output, rewrites>>

\* The blobs are copied from the offsets of the inventory into a temporary file.
Copy(m) ==
  LET s == merger[m]
      read == s.blobs[s.i]
      wrong == IF In(m) = read THEN {} ELSE read.has
  IN /\ s.pc = "copy"
     /\ Merger(m, [s EXCEPT !.has = @ \cup read.has, !.bad = @ \cup wrong,
                          !.pc = IF s.i = Len(Platforms) THEN "link" ELSE "copy",
                          !.i = IF s.i = Len(Platforms) THEN 1 ELSE @ + 1])
     /\ UNCHANGED <<input, output, rewrites>>

\* unchanged() for both inputs ...
CheckInputs(m) ==
  /\ merger[m].pc = "link"
  /\ IF \A i \in DOMAIN Platforms : ArchiveUnchanged(m, i)
     THEN Merger(m, [merger[m] EXCEPT !.pc = "publish"]) ELSE MergeFails(m)
  /\ UNCHANGED <<input, output, rewrites>>

\* ... os.link() fails when the name exists.
Link(m) ==
  LET s == merger[m] IN
  /\ s.pc = "publish"
  /\ IF output = NoOutput
     THEN /\ output' = [leaves |-> s.leaves, has |-> s.has, bad |-> s.bad]
          /\ Merger(m, [NewMerger EXCEPT !.pc = "done"])
     ELSE MergeFails(m) /\ UNCHANGED output
  /\ UNCHANGED <<input, rewrites>>

\* A hidden temporary file may stay behind; no payload glob selects it.
MergerKilled(m) ==
  /\ merger[m].pc \notin {"done", "failed"}
  /\ MergeFails(m)
  /\ UNCHANGED <<input, output, rewrites>>

Rewrite(i) ==
  /\ rewrites < MaxRewrites
  /\ rewrites' = rewrites + 1
  /\ \E a \in Archives : input' = [input EXCEPT ![i] = [archive |-> a, stamp |-> @.stamp + 1]]
  /\ UNCHANGED <<merger, output>>

OciNext ==
  \/ \E m \in Mergers : \/ StartMerge(m) \/ Open(m) \/ Inventory(m) \/ Walk(m) \/ RecheckArchive(m)
                        \/ Copy(m) \/ CheckInputs(m) \/ Link(m) \/ MergerKilled(m)
  \/ \E i \in DOMAIN Platforms : Rewrite(i)

OciSpec == OciInit /\ [][OciNext]_ociVars
-----------------------------------------------------------------------------
\* One image of each platform with the version asked for, and all that the leaves
\* refer to, byte for byte.
Whole(o) ==
  /\ \A i \in DOMAIN Platforms :
       \E d \in o.leaves : /\ {e \in o.leaves : Blob[e].kind = "image"
                                                 /\ Blob[e].platform = Platforms[i]} = {d}
                           /\ Blob[d].version = Version
  /\ \A d \in o.leaves : d \in o.has \ o.bad /\ References(d) \subseteq o.has \ o.bad

(***************************************************************************)
(* The published archive is whole, although its inputs were rewritten      *)
(* between inventory, graph walk and copy, and it never changes again,     *)
(* although another merger had found the name free (Archive.unchanged,     *)
(* os.link in merge_archives).                                             *)
(***************************************************************************)
OutputIsWhole ==
  /\ [](output # NoOutput => Whole(output))
  /\ [][output # NoOutput => output' = output]_ociVars
-----------------------------------------------------------------------------
(* What makes OutputIsWhole inductive.  While a merger works on input i,    *)
(* it has dealt with i itself in the states pcs; afterwards with all.       *)
Upto(s, pcs) ==
  CASE s.pc \in {"copy", "link", "publish"} -> Len(Platforms)
    [] s.pc \in pcs -> s.i
    [] OTHER -> s.i - 1

StampsRead(s) == Upto(s, {"inventory", "walk", "recheck"})
BlobsRead(s) == Upto(s, {"walk", "recheck"})
GraphsRead(s) == Upto(s, {"recheck"})
Copied(s) ==
  CASE s.pc \in {"link", "publish"} -> Len(Platforms) [] s.pc = "copy" -> s.i - 1 [] OTHER -> 0

MergerOK(s) ==
  /\ s \in [pc : {"start", "open", "inventory", "walk", "recheck", "copy", "link", "publish",
                  "done", "failed"},
            i : DOMAIN Platforms, stamp : Seq(Nat), blobs : Seq(Archives), leaves : {s.leaves},
            has : {s.has}, bad : {s.bad}]
  /\ s.pc \in {"start", "done", "failed"} => s.i = 1
  /\ Len(s.stamp) = StampsRead(s) /\ Len(s.blobs) = BlobsRead(s)

\* A file that is rewritten never has its old stamp again.
StampsAge(s) == \A i \in 1 .. Len(s.stamp) : s.stamp[i] <= input[i].stamp
Trusted(s) == \A i \in 1 .. Len(s.stamp) : s.stamp[i] = input[i].stamp

\* What a merger holds of files that nobody touched is what they hold, checked.
ReadsTrue(s) ==
  /\ \A i \in 1 .. BlobsRead(s) : s.blobs[i] = input[i].archive
  /\ \A i \in 1 .. GraphsRead(s) : ValidGraph(s.blobs[i], Platforms[i], Version)
  /\ s.leaves = UNION {Leaves(s.blobs[i]) : i \in 1 .. GraphsRead(s)}
  /\ s.bad = {}

\* After the last comparison the temporary file no longer depends on the inputs.
MergerSound(s) ==
  /\ MergerOK(s) /\ StampsAge(s)
  /\ s.has = UNION {s.blobs[i].has : i \in 1 .. Copied(s)}
  /\ Trusted(s) => ReadsTrue(s)
  /\ s.pc = "publish" => Whole([leaves |-> s.leaves, has |-> s.has, bad |-> s.bad])

OciInv ==
  /\ input \in [DOMAIN Platforms -> [archive : Archives, stamp : Nat]]
  /\ merger = [m \in Mergers |-> merger[m]] /\ \A m \in Mergers : MergerSound(merger[m])
  /\ output # NoOutput => Whole(output)
=============================================================================
