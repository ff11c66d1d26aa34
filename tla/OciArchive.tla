----------------------------- MODULE OciArchive -----------------------------
(***************************************************************************)
(* What class Archive of merge_oci_archives.py accepts as a native input.  *)
(* A digest stands for the bytes it is the SHA-256 of, so Blob gives the   *)
(* meaning of every digest: an index [kind, children], an image [kind,     *)
(* platform, version, config, layers, diffs], an attestation [kind,        *)
(* config, subject, statements], a statement [kind, subject], a layer      *)
(* [kind, media, plain] or a config [kind, platform], where that of an     *)
(* attestation is for no platform ("none").  An archive is the list in its *)
(* index.json, the digests it holds, and those under which the tar stores  *)
(* other bytes.                                                            *)
(***************************************************************************)
EXTENDS Naturals, SequencesExt

CONSTANTS
  Blob,        \* what each digest stands for
  MaxDepth,    \* nested indexes (8)
  MaxVisited   \* descriptors of one graph (1024)

\* walk_index(): the descriptors below those of a level.
Children(ds) ==
  FlattenSeq([i \in DOMAIN ds |-> IF Blob[ds[i]].kind = "index" THEN Blob[ds[i]].children ELSE <<>>])

\* walk(): level by level, the root's descriptors at depth 0.
Levels(a) ==
  LET level[n \in 0 .. MaxDepth + 1] == IF n = 0 THEN a.root ELSE Children(level[n - 1])
  IN level

\* Every descriptor that walk() visits; a shared one is visited again.
Visited(a) == FlattenSeq([i \in 1 .. MaxDepth + 1 |-> Levels(a)[i - 1]])

LeafPositions(a) == {i \in DOMAIN Visited(a) : Blob[Visited(a)[i]].kind \in {"image", "attestation"}}
Leaves(a) == {Visited(a)[i] : i \in LeafPositions(a)}
Images(a) == {d \in Leaves(a) : Blob[d].kind = "image"}

\* layer_digest(): the digest of the expanded layer.
LayerDigest(d) == Blob[d].plain

\* image(): platform and labels as asked for, every layer present and its expanded
\* bytes those the config names.
ValidImage(a, d, platform, version) ==
  LET i == Blob[d] IN
  /\ i.platform = platform
  /\ i.config \in a.has /\ Blob[i.config].platform = platform
  /\ i.version = version
  /\ \A k \in DOMAIN i.layers : i.layers[k] \in a.has
  /\ Len(i.layers) = Len(i.diffs)
  /\ \A k \in DOMAIN i.layers : LayerDigest(i.layers[k]) = i.diffs[k]

\* attestation(): a config that runs nothing, and statements, all present and all
\* about the subject.
ValidAttestation(a, d) ==
  LET t == Blob[d] IN
  /\ t.config \in a.has /\ Blob[t.config].platform = "none"
  /\ t.subject \in a.has
  /\ t.statements # {} /\ t.statements \subseteq a.has
  /\ \A s \in t.statements : Blob[s].subject = t.subject

\* inventory(): every stored blob is what its name says, referenced or not.
ValidInventory(a) == a.bad = {}

\* validate_complete_graph(): one image, and attestations of that image only.
CompleteGraph(a) ==
  \E d \in Leaves(a) :
    /\ Images(a) = {d}
    /\ \A t \in Leaves(a) : Blob[t].kind = "attestation" => Blob[t].subject = d

\* walk(), blob() and the tests on what they find.
ValidGraph(a, platform, version) ==
  /\ Levels(a)[MaxDepth + 1] = <<>> /\ Len(Visited(a)) <= MaxVisited
  /\ a.root # <<>>
  /\ \A i \in DOMAIN Visited(a) : LET d == Visited(a)[i] IN
       /\ d \in a.has
       /\ Blob[d].kind \in {"index", "image", "attestation"}
       /\ Blob[d].kind = "index" => Blob[d].children # <<>>
       /\ Blob[d].kind = "image" => ValidImage(a, d, platform, version)
       /\ Blob[d].kind = "attestation" => ValidAttestation(a, d)
  /\ \A i, j \in LeafPositions(a) : Visited(a)[i] = Visited(a)[j] => i = j
  /\ CompleteGraph(a)

\* What an image or attestation needs besides itself.
References(d) ==
  CASE Blob[d].kind = "image" -> Range(Blob[d].layers) \cup {Blob[d].config}
    [] Blob[d].kind = "attestation" -> Blob[d].statements \cup {Blob[d].config, Blob[d].subject}
=============================================================================
