----------------------------- MODULE ImageTrust -----------------------------
(***************************************************************************)
(* The image-signing trust root, the commands that register a guest image    *)
(* under it, and the daemon's Store.Resolve, which admits one to boot.       *)
(* Commands are processes: two may run at once, and one may die between two  *)
(* of its writes. One image name; losing another name's entry is BaseCache's *)
(* concern. A bundle is a number, standing for its kernel and its rootfs.    *)
(***************************************************************************)
EXTENDS Naturals

CONSTANTS Procs, MaxBundles, MaxKeys, MaxCommands, MaxRestarts   \* the last four are bounds

VARIABLES
    key,        \* trust/image-signing.key: the number of the key pair, 0 when absent
    pub,        \* trust/image-signing.pub
    keys,       \* key pairs generated so far
    disk,       \* what the files an image may name hold
    lock,       \* the entry of images.lock
    proc,       \* each command
    store,      \* the daemon's store: Unopened, Failed for good, or the public key it holds
    resolve,    \* the Resolve in progress: the entry it read and what it has yet to hash
    admitted,   \* what the last Resolve admitted, with the contents it hashed
    registered, \* every entry Register ever wrote
    commands, restarts
vars == <<key, pub, keys, disk, lock, proc, store, resolve, admitted, registered, commands, restarts>>

Bundles == 1..MaxBundles
Absent == 0
Wrong == MaxBundles + 1   \* bytes that are no bundle's: another download, or half of one
Own == MaxBundles + 2     \* the operator's own kernel and rootfs, or base tree
Contents == 0..Own
None == [where |-> "none"]
Failed == 0
Unopened == MaxKeys + 1

\* An entry: where its files are, the digests it pins and the key that signed it.
Entries == [where : {"images", "own", "tree"}, rootfs : Contents, kernel : Contents, signer : 0..MaxKeys]

\* The files an entry names, as they are now. A base tree boots without a kernel.
Rootfs(where) == IF where = "images" THEN disk.rootfs ELSE Own
Kernel(where) == CASE where = "images" -> disk.kernel [] where = "own" -> Own [] OTHER -> Absent

\* A command: where it is, the files and the bundle it is about, where it goes on once a
\* trust root is generated, the key it signs with and the rootfs it hashed.
Job(at, where, bundle, after) == [at |-> at, where |-> where, bundle |-> bundle, after |-> after,
                                  priv |-> 0, rootfs |-> Absent]
Idle == Job("idle", "none", 0, "done")
Jobs == [at : {"idle", "generate", "publish", "sign", "build", "register",
               "kernel", "kernelCheck", "rootfs", "rootfsCheck"},
         where : {"none", "images", "own", "tree"}, bundle : 0..MaxBundles,
         after : {"done", "build"}, priv : 0..MaxKeys, rootfs : Contents]
Begin(p, to) == /\ proc[p] = Idle /\ commands < MaxCommands
                /\ commands' = commands + 1 /\ proc' = [proc EXCEPT ![p] = to]
Goto(p, at) == proc' = [proc EXCEPT ![p].at = at]
Done(p) == proc' = [proc EXCEPT ![p] = Idle]
trust == <<key, pub, keys>>
images == <<lock, registered>>
daemon == <<store, resolve, admitted, restarts>>

Init ==
    /\ key = 0 /\ pub = 0 /\ keys = 0
    /\ disk = [kernel |-> Absent, rootfs |-> Absent]
    /\ lock = None /\ registered = {}
    /\ proc = [p \in Procs |-> Idle]
    /\ store = Unopened /\ resolve = None /\ admitted = None
    /\ commands = 0 /\ restarts = 0

----------------------------------------------------------------------------
(* The trust root.                                                           *)

\* GenerateTrustRoot writes the private key and then the public key, each atomically,
\* over whatever key was there.
GenerateTrustRoot(p) ==
    /\ \/ /\ proc[p].at = "generate" /\ keys < MaxKeys
          /\ keys' = keys + 1 /\ key' = keys + 1 /\ UNCHANGED pub
          /\ proc' = [proc EXCEPT ![p].at = "publish", ![p].priv = keys + 1]
       \/ /\ proc[p].at = "publish"
          /\ pub' = proc[p].priv /\ UNCHANGED <<key, keys>>
          /\ IF proc[p].after = "done" THEN Done(p) ELSE Goto(p, proc[p].after)
    /\ UNCHANGED <<disk, images, daemon, commands>>

sandboxImageInitCmd(p) ==
    /\ Begin(p, Job("generate", "none", 0, "done"))
    /\ UNCHANGED <<trust, disk, images, daemon>>

\* LoadSigningKey takes the private key that is there. Where there is none, `image add`
\* fails and the others generate one.
LoadSigningKey(p) ==
    /\ proc[p].at = "sign"
    /\ IF key # 0 THEN proc' = [proc EXCEPT ![p].at = "build", ![p].priv = key]
       ELSE IF proc[p].where = "own" THEN Done(p) ELSE Goto(p, "generate")
    /\ UNCHANGED <<trust, disk, images, daemon, commands>>

EnsureSigningKey(p) == proc[p].where = "tree" /\ LoadSigningKey(p)

----------------------------------------------------------------------------
(* Registering an image.                                                     *)

\* BuildEntry hashes the rootfs and then the kernel as they are on disk; a missing file
\* fails the command. BuildBaseEntry hashes the tree.
BuildEntry(p) ==
    LET where == proc[p].where IN
    /\ proc[p].at = "build"
    /\ IF Rootfs(where) = Absent THEN Done(p)
       ELSE proc' = [proc EXCEPT ![p].at = "register", ![p].rootfs = Rootfs(where)]
    /\ UNCHANGED <<trust, disk, images, daemon, commands>>

\* Register signs the entry with the key it was given and replaces the lock entry.
Register(p) ==
    LET where == proc[p].where
        entry == [where |-> where, rootfs |-> proc[p].rootfs, kernel |-> Kernel(where),
                  signer |-> proc[p].priv] IN
    /\ proc[p].at = "register"
    /\ IF where = "images" /\ Kernel(where) = Absent THEN UNCHANGED images
       ELSE lock' = entry /\ registered' = registered \cup {entry}
    /\ Done(p)
    /\ UNCHANGED <<trust, disk, daemon, commands>>

sandboxImageAddCmd(p) ==
    \/ Begin(p, Job("sign", "own", 0, "build")) /\ UNCHANGED <<trust, disk, images, daemon>>
    \/ proc[p].where = "own" /\ LoadSigningKey(p)
setRepoGuestBase(p) ==
    \/ Begin(p, Job("sign", "tree", 0, "build")) /\ UNCHANGED <<trust, disk, images, daemon>>
    \/ EnsureSigningKey(p)

\* installImage reads the manifest; without one for this platform nothing is begun.
installImage(p) ==
    /\ \E b \in Bundles : Begin(p, Job("kernel", "images", b, "build"))
    /\ UNCHANGED <<trust, disk, images, daemon>>

Checking(file) == IF file = "kernel" THEN "kernelCheck" ELSE "rootfsCheck"

\* fetchTo writes the file in place. What arrives is the bundle's, or not: the source was
\* replaced since the manifest was read, or the copy broke off.
fetchTo(p, file) ==
    /\ proc[p].at = file
    /\ \/ \E got \in {proc[p].bundle, Wrong} : disk' = [disk EXCEPT ![file] = got] /\ Goto(p, Checking(file))
       \/ UNCHANGED disk /\ Done(p)
       \/ disk' = [disk EXCEPT ![file] = Wrong] /\ Done(p)
    /\ UNCHANGED <<trust, images, daemon, commands>>

\* fetchVerified reads the file back and removes what the manifest does not name.
fetchVerified(p, file) ==
    /\ proc[p].at = Checking(file)
    /\ IF disk[file] = proc[p].bundle
       THEN UNCHANGED disk /\ Goto(p, IF file = "kernel" THEN "rootfs" ELSE "sign")
       ELSE disk' = [disk EXCEPT ![file] = Absent] /\ Done(p)
    /\ UNCHANGED <<trust, images, daemon, commands>>

Install(p) ==
    \/ installImage(p)
    \/ \E file \in {"kernel", "rootfs"} : fetchTo(p, file) \/ fetchVerified(p, file)
    \/ proc[p].where = "images" /\ LoadSigningKey(p)

Crash(p) == proc[p] # Idle /\ Done(p) /\ UNCHANGED <<trust, disk, images, daemon, commands>>

----------------------------------------------------------------------------
(* The daemon.                                                               *)

\* NewStore loads the public key; without one there is no store.
NewStore == IF pub = 0 THEN Failed ELSE pub

\* newImageResolver opens the store once; what NewStore said then is kept: the
\* public key, or that there was none.
newImageResolver == IF store # Unopened THEN store ELSE NewStore

verifyContentDigest(got, pinned) == got = pinned

\* Resolve reads the lock: the entry must be the one the reference pins, and signed under
\* the store's key. What its files hold is read afterwards, one file after the other, and
\* commands go on meanwhile.
Resolve(ref) ==
    LET s == newImageResolver IN
    /\ resolve = None
    /\ store' = s /\ admitted' = None
    /\ resolve' = IF s # Failed /\ lock # None /\ lock.rootfs = ref /\ lock.signer = s
                  THEN [next |-> "rootfs", entry |-> lock] ELSE None
    /\ UNCHANGED <<trust, disk, images, proc, commands, restarts>>

ResolveRootfs ==
    LET got == Rootfs(resolve.entry.where) IN
    /\ resolve # None /\ resolve.next = "rootfs"
    /\ resolve' = IF verifyContentDigest(got, resolve.entry.rootfs)
                  THEN [next |-> "kernel", entry |-> [resolve.entry EXCEPT !.rootfs = got]] ELSE None
    /\ UNCHANGED <<trust, disk, images, proc, commands, restarts, store, admitted>>

\* Mutant of ResolveKernel: the rootfs alone is verified.
ResolveKernelUnread ==
    LET got == Kernel(resolve.entry.where) IN
    /\ resolve # None /\ resolve.next = "kernel"
    /\ resolve' = None /\ admitted' = [resolve.entry EXCEPT !.kernel = got]
    /\ UNCHANGED <<trust, disk, images, proc, commands, restarts, store>>

ResolveKernel ==
    LET got == Kernel(resolve.entry.where) IN
    /\ resolve # None /\ resolve.next = "kernel"
    /\ resolve' = None
    /\ admitted' = IF verifyContentDigest(got, resolve.entry.kernel)
                   THEN [resolve.entry EXCEPT !.kernel = got] ELSE None
    /\ UNCHANGED <<trust, disk, images, proc, commands, restarts, store>>

Restart == /\ restarts < MaxRestarts /\ restarts' = restarts + 1
           /\ store' = Unopened /\ resolve' = None /\ admitted' = None
           /\ UNCHANGED <<trust, disk, images, proc, commands>>

Next ==
    \/ \E p \in Procs :
          \/ sandboxImageInitCmd(p) \/ sandboxImageAddCmd(p) \/ setRepoGuestBase(p)
          \/ Install(p) \/ GenerateTrustRoot(p) \/ BuildEntry(p) \/ Register(p)
          \/ Crash(p)
    \/ \E ref \in Contents \ {Absent} : Resolve(ref)
    \/ ResolveRootfs \/ ResolveKernel
    \/ Restart

Spec == Init /\ [][Next]_vars

----------------------------------------------------------------------------
TypeOK ==
    /\ {key, pub, keys} \subseteq 0..MaxKeys
    /\ disk \in [kernel : Contents, rootfs : Contents]
    /\ lock = None \/ lock \in Entries
    /\ proc \in [Procs -> Jobs]
    /\ store \in 0..Unopened
    /\ resolve = None \/ resolve \in [next : {"rootfs", "kernel"}, entry : Entries]

\* What is admitted to boot was registered: the rootfs and the kernel that Resolve hashed,
\* one after the other, are what one Register pinned together and signed with the private
\* half of the key the daemon trusts, however installs overwrite each other's files or the
\* entry meanwhile, die half way, or race a rotation.
AdmittedWasRegistered ==
    admitted # None => admitted \in registered /\ admitted.signer = store

\* Why it holds: a command that registers is about an image, the lock holds nothing
\* but what was registered, and a Resolve carries the entry it read to the end.
LockedWasRegistered ==
    /\ registered \subseteq Entries /\ (lock = None \/ lock \in registered)
    /\ resolve # None => resolve.entry \in registered /\ resolve.entry.signer = store
    /\ \A p \in Procs : proc[p].where = "none" =>
                         proc[p].at \in {"idle", "generate", "publish"} /\ proc[p].after = "done"

WellFormed == {MaxBundles, MaxKeys} \subseteq Nat

\* What the comment on ResolvedImage calls "a verified image's on-disk locations": when
\* Resolve answers, the locations it names hold what it verified.
ResolvedIsOnDisk ==
    [][resolve # None /\ admitted' # None => Rootfs(admitted'.where) = admitted'.rootfs]_vars

\* What the comment on Register says, "A registered image is exactly what Store.Resolve
\* verifies and admits", for the entry as the last command left it: nothing is running and
\* no file changed since, yet Resolve refuses it.
RegisteredIsAdmitted ==
    (\A p \in Procs : proc[p] = Idle) /\ lock # None /\ Rootfs(lock.where) = lock.rootfs
        /\ Kernel(lock.where) = lock.kernel
        => newImageResolver = lock.signer

\* What the comment on Install says, that it "fails closed on any digest mismatch": what an
\* install registers is its bundle's kernel and rootfs.
InstallFailsClosed ==
    lock # None /\ lock.where = "images" => lock.rootfs = lock.kernel /\ lock.rootfs \in Bundles
=============================================================================
