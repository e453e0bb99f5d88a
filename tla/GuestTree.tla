------------------------------ MODULE GuestTree ------------------------------
(***************************************************************************)
(* How `base from` turns an OCI image into the tree a guest boots from:      *)
(* guestbase.Pull resolves the reference and extracts the layers in order    *)
(* into a staging directory, finishComposedTree makes that a guest base, and *)
(* TreeDigest names it. A failure anywhere discards the staging directory.   *)
(*                                                                         *)
(* A tree maps the few paths that matter to what is there. The content of a  *)
(* file is the number of the layer that wrote it, or the guest binary. A tar *)
(* entry is a record; a whiteout is a kind of entry. Symlinks are leaves.    *)
(***************************************************************************)
EXTENDS Naturals, Sequences, SequencesExt

CONSTANTS MaxLayers, MaxEntries  \* bounds: layers of an image, entries of a layer

VARIABLES
    phase,   \* where composeBaseFromImage is
    want,    \* the reference: a tag, or the digest it pins
    pin,     \* the digest resolveManifest records for it
    layers,  \* the entries extracted so far, layer by layer
    genuine, \* history: whether the bytes of every layer taken hash to its digest
    tree     \* the staging directory
vars == <<phase, want, pin, layers, genuine, tree>>

\* The paths: a mount point of the guest, a directory with the shell and mgit's own
\* binary, and a leaf a symlink may be.
Mount == "mnt"  Bin == "bin"  Shell == "bin/sh"  Guest == "bin/mgit"  Leaf == "x"
Paths == {Mount, Bin, Shell, Guest, Leaf}
Root == "/"
parent(p) == IF p \in {Shell, Guest} THEN Bin ELSE Root
Beneath(p) == {q \in Paths : p = Root \/ parent(q) = p}

None == [kind |-> "none"]
Dir == [kind |-> "dir"]
File(data, exec) == [kind |-> "file", data |-> data, exec |-> exec]
Symlink(target) == [kind |-> "symlink", target |-> target]
Mgit == 0
Empty == [p \in Paths |-> None]

\* What a reference names at the registry: the image it pins, or another.
Image == "image"  Other == "other"

Init ==
    /\ phase = "resolve" /\ want \in {"tag", Image}
    /\ pin = "none" /\ layers = <<>> /\ genuine = TRUE /\ tree = Empty

Fail == phase' = "discarded" /\ tree' = Empty /\ layers' = <<>> /\ genuine' = TRUE /\ pin' = "none"
        /\ UNCHANGED want

----------------------------------------------------------------------------
(* The registry.                                                             *)

\* A request is answered, or challenged once: a Bearer challenge is met with an
\* anonymous token and the request repeated. Anything but 200 in the end is a failure.
Answers == [first : {200, 401, 500}, bearer : BOOLEAN, token : BOOLEAN, second : {200, 401, 500}]
authenticate(a) == a.bearer /\ a.token
getResponse(a) == IF a.first = 401 THEN authenticate(a) /\ a.second = 200 ELSE a.first = 200

\* A manifest asked for by digest must hash to it; one asked for by tag is what it is.
fetchManifest(target, served) == target = "tag" \/ served = target

\* selectPlatform: an index must list a manifest for this host's architecture.
selectPlatform(listed) == listed

\* The tag, or the digest it pins, answers with a manifest or with an index whose
\* manifest for this host is fetched by digest. What is recorded is the first digest.
resolveManifest ==
    /\ phase = "resolve"
    /\ \E a \in Answers, served \in {Image, Other}, index, listed, second, supported \in BOOLEAN :
         IF /\ getResponse(a) /\ supported
            /\ fetchManifest(want, served)
            /\ index => selectPlatform(listed) /\ second
         THEN phase' = "layer" /\ pin' = served /\ layers' = <<<<>>>> /\ UNCHANGED <<want, genuine, tree>>
         ELSE Fail

----------------------------------------------------------------------------
(* Extraction.                                                               *)

RemoveAll(t, p) == [q \in Paths |-> IF q = p \/ q \in Beneath(p) THEN None ELSE t[q]]

\* MkdirAll: fails where something that is not a directory is in the way.
CanMkdir(t, p) == p = Root \/ t[p].kind \in {"none", "dir"}
MkdirAll(t, p) == IF p = Root THEN t ELSE [t EXCEPT ![p] = Dir]

Entries(n) ==
    {[kind |-> "dir", path |-> p] : p \in {Mount, Bin}}
    \cup {[kind |-> "file", path |-> p, node |-> File(n, TRUE)] : p \in {Mount, Bin, Shell, Guest}}
    \cup {[kind |-> "file", path |-> Guest, node |-> File(n, FALSE)]}
    \cup {[kind |-> "symlink", path |-> Leaf, node |-> Symlink(t)] : t \in {"absolute", "inside", "escaping"}}
    \cup {[kind |-> "link", path |-> Guest, source |-> Shell]}
    \cup {[kind |-> "whiteout", path |-> p] : p \in Paths}
    \cup {[kind |-> "opaque", path |-> d] : d \in {Root, Bin}}
IsMarker(e) == e.kind \in {"whiteout", "opaque"}

applyWhiteoutShallow(t, e) ==
    IF e.kind = "whiteout" THEN [t EXCEPT ![e.path] = None]
    ELSE [q \in Paths |-> IF q \in Beneath(e.path) THEN None ELSE t[q]]

\* applyWhiteout: an opaque marker empties its directory, a plain one removes its path.
applyWhiteout(t, e) ==
    IF e.kind = "whiteout" THEN RemoveAll(t, e.path)
    ELSE [q \in Paths |-> IF q \in Beneath(e.path) THEN None ELSE t[q]]

\* writeEntry: a directory is made; anything else replaces whatever is at its path, in a
\* parent that is made first. A hard link needs its source.
CanWrite(t, e) ==
    CASE e.kind = "dir" -> CanMkdir(t, e.path)
      [] e.kind = "link" -> CanMkdir(t, parent(e.path)) /\ t[e.source].kind = "file"
      [] OTHER -> CanMkdir(t, parent(e.path))
writeEntry(t, e) ==
    LET made == MkdirAll(t, parent(e.path)) IN
    CASE e.kind = "dir" -> MkdirAll(t, e.path)
      [] e.kind = "link" -> [RemoveAll(made, e.path) EXCEPT ![e.path] = t[e.source]]
      [] OTHER -> [RemoveAll(made, e.path) EXCEPT ![e.path] = e.node]

\* extractTar: the next entry of the layer, in the archive's order, whatever it is.
extractTar ==
    /\ phase = "layer" /\ Len(Last(layers)) < MaxEntries
    /\ \E e \in Entries(Len(layers)) :
         IF ~IsMarker(e) /\ ~CanWrite(tree, e) THEN Fail
         ELSE /\ tree' = IF IsMarker(e) THEN applyWhiteout(tree, e) ELSE writeEntry(tree, e)
              /\ layers' = [layers EXCEPT ![Len(layers)] = Append(@, e)]
              /\ UNCHANGED <<phase, want, pin, genuine>>

\* extractLayer: the bytes are hashed as they are extracted and compared at the end.
extractLayer ==
    /\ phase = "layer" /\ Last(layers) # <<>>
    /\ \E served \in BOOLEAN :
         IF ~served THEN Fail
         ELSE /\ genuine' = (genuine /\ served)
              /\ \/ Len(layers) < MaxLayers /\ layers' = Append(layers, <<>>) /\ UNCHANGED phase
                 \/ phase' = "finish" /\ UNCHANGED layers
              /\ UNCHANGED <<want, pin, tree>>

----------------------------------------------------------------------------
(* finishComposedTree, and the digest the tree is published under.           *)

ensureGuestMountDirs(t) == MkdirAll(t, Mount)
assertLinuxUserspace(t) == t[Shell].kind # "none"
validateBaseTree(t) == t[Mount].kind = "dir"

\* copyGuestBinary creates the binary executable; over a file of the image it writes the
\* bytes and leaves that file's mode.
copyGuestBinary(t) ==
    [t EXCEPT ![Guest] = File(Mgit, IF t[Guest].kind = "file" THEN t[Guest].exec ELSE TRUE)]
injectGuestBinariesWith(t) == copyGuestBinary(MkdirAll(t, Bin))

finishComposedTree ==
    LET mounted == ensureGuestMountDirs(tree) IN
    /\ phase = "finish"
    /\ IF /\ CanMkdir(tree, Mount)
          /\ assertLinuxUserspace(mounted) /\ validateBaseTree(mounted)
          /\ CanMkdir(mounted, Bin) /\ mounted[Guest].kind # "dir"
       THEN /\ tree' = injectGuestBinariesWith(mounted) /\ phase' = "digest"
            /\ UNCHANGED <<want, pin, layers, genuine>>
       ELSE Fail

\* hashEntry: a symlink that climbs out of the tree cannot be pinned; the rest is hashed
\* by path, kind, executable bit and content.
assertSymlinkWithinTree(t) == \A p \in Paths : t[p] # Symlink("escaping")

TreeDigest ==
    /\ phase = "digest"
    /\ IF assertSymlinkWithinTree(tree)
       THEN phase' = "published" /\ UNCHANGED <<want, pin, layers, genuine, tree>>
       ELSE Fail

Next == resolveManifest \/ extractTar \/ extractLayer \/ finishComposedTree \/ TreeDigest

Spec == Init /\ [][Next]_vars

----------------------------------------------------------------------------
TypeOK ==
    /\ phase \in {"resolve", "layer", "finish", "digest", "published", "discarded"}
    /\ pin \in {"none", Image, Other} /\ genuine \in BOOLEAN
    /\ \A p \in Paths : tree[p].kind \in {"none", "dir", "file", "symlink"}

\* A layer nobody would argue about: each path once, a hard link after its source, and
\* nothing below a path that the same layer makes something else than a directory.
Orderly(layer) ==
    \A i, j \in DOMAIN layer : i # j /\ ~IsMarker(layer[i]) =>
        /\ layer[i].path # layer[j].path \/ IsMarker(layer[j])
        /\ layer[i].kind # "dir" => layer[j].path \notin Beneath(layer[i].path)
        /\ layer[i].kind = "link" /\ layer[j].path = layer[i].source => j < i

Covers(m, p) == (m.kind = "whiteout" /\ m.path = p) \/ p \in Beneath(m.path)

\* What a layer means, as a change set: what it hides of the layers below, and on top of
\* what is left its own entries, with the directories they are in, in any order.
Over(lower, layer) ==
    LET own == {layer[i] : i \in {j \in DOMAIN layer : ~IsMarker(layer[j])}}
        marks == {layer[i] : i \in DOMAIN layer} \ own
        hidden(p) == \/ \E m \in marks : Covers(m, p)
                     \/ \E e \in own : e.kind # "dir" /\ p \in Beneath(e.path)
        left(p) == IF hidden(p) THEN None ELSE lower[p]
        at(p) == {e \in own : e.path = p} IN
    [p \in Paths |->
        CASE \E e \in at(p) : e.kind \in {"file", "symlink"} -> (CHOOSE e \in at(p) : TRUE).node
          [] \E e \in at(p) : e.kind = "link" ->
                IF at(Shell) = {} THEN left(Shell) ELSE (CHOOSE e \in at(Shell) : TRUE).node
          [] (\E e \in own : e.path = p \/ parent(e.path) = p) /\ at(p) \subseteq {[kind |-> "dir", path |-> p]} -> Dir
          [] OTHER -> left(p)]

\* The paths a layer itself made before one of its markers swept them away.
Swept(layer) ==
    {p \in Paths : \E i, j \in DOMAIN layer :
        /\ i < j /\ ~IsMarker(layer[i]) /\ p \in {layer[i].path, parent(layer[i].path)}
        /\ IsMarker(layer[j]) /\ Covers(layer[j], p)}

\* Extracting entry by entry, with whiteouts applied to the directory as it stands, gives
\* the tree the layers describe: later layers delete and replace, and nothing a layer
\* deleted survives. A marker that comes after entries of its own layer takes those with
\* it, and makes no other difference: they are missing, never replaced by something old.
LayersCompose ==
    phase = "finish" /\ (\A i \in DOMAIN layers : Orderly(layers[i])) =>
        LET meant == FoldLeft(Over, Empty, layers) IN
        \A p \in Paths : \/ tree[p] = meant[p]
                         \/ tree[p] = None /\ \E i \in DOMAIN layers : p \in Swept(layers[i])

\* What is published is what was asked for and can be booted: every layer's bytes were
\* the ones named, a reference by digest composed that image, the guest's mount point and
\* a shell are there, and the guest binary is mgit's.
PublishedIsPinned ==
    phase = "published" =>
        /\ genuine /\ (want = "tag" \/ pin = want)
        /\ tree[Mount] = Dir /\ tree[Shell] # None
        /\ tree[Guest].kind = "file" /\ tree[Guest].data = Mgit
        /\ assertSymlinkWithinTree(tree)

\* What TestPull_OpaqueWhiteoutClearsTheDirectory says of an opaque marker: "the upper
\* layer's own files must remain", if that is to hold wherever in its layer it stands.
OwnFilesRemain ==
    phase = "layer" => \A i \in DOMAIN Last(layers) :
        LET e == Last(layers)[i] IN
        /\ e.kind = "file" /\ Orderly(Last(layers))
        /\ \E m \in DOMAIN Last(layers) : Last(layers)[m].kind = "opaque" /\ e.path \in Beneath(Last(layers)[m].path)
        => tree[e.path] = e.node

\* What the comment on copyGuestBinary says: it installs a guest binary "into the tree,
\* executable".
GuestBinaryRuns == phase = "published" => tree[Guest].exec

\* The guest base is the image that was asked for: layers compose to what they describe,
\* but for what a late marker sweeps, and what is published is pinned and bootable (Pull, Publish).
BaseIsTheImage == LayersCompose /\ PublishedIsPinned
=============================================================================
