------------------------------ MODULE HotSwap ------------------------------
(***************************************************************************)
(* The hot-update mechanism of the server: HmrHost (packages/hmr) with the *)
(* kernel's upgrade ladder and the control object the product drives it    *)
(* by.  A push carries one version, that is a platform bundle, a CLI       *)
(* bundle, a web dist and perhaps native assets.  Pushes are taken one at  *)
(* a time; each is stored, booted in place of the running generation, and  *)
(* then committed by one rename of harness.json, after which the store is  *)
(* pruned.  Every await is a step boundary, a file operation may fail, a   *)
(* generation may refuse to boot, and the process may die at any step and  *)
(* be started again from what is on disk.                                  *)
(***************************************************************************)
EXTENDS Integers, Sequences, FiniteSets

CONSTANTS
  Versions,      \* what a push carries, taken as one unit
  Pushes,        \* the pushes that may arrive
  Requests,      \* the HTTP requests that may arrive
  Names,         \* content hashes: the names of stored artifacts
  NoPart,        \* the assets of a version that carries none
  Part,          \* Part[k][v]: the name of version v's artifact of kind k
  Packaged,      \* the platform and web dist compiled into the program
  Roots,         \* what may be committed when the process first starts
  StoreKeep,     \* STORE_KEEP: how many of each kind the pruning keeps
  MaxStarts      \* bound: how often the process is started

Kinds == {"platform", "cli", "web", "assets"}

ASSUME HotSwapAssumption ==
  /\ NoPart \notin Names
  /\ Packaged \notin Versions
  /\ Part \in [Kinds -> [Versions -> Names \union {NoPart}]]
  /\ \A k \in Kinds \ {"assets"}, v \in Versions : Part[k][v] \in Names
  /\ Roots \subseteq Versions \union {Packaged}
  /\ StoreKeep \in Nat \ {0}
  /\ MaxStarts \in Nat

VARIABLES
  \* on disk
  store,      \* per kind, the names present under hmr/store
  newer,      \* per kind, the pairs <<a, b>> where a was written after b
  placed,     \* the asset directories that hold their .materialized marker
  torn,       \* those that lost files to a removal that did not come to its end
  manifest,   \* harness.json: the committed version, or Packaged for none
  \* in the process
  up,         \* the process serves
  instance,   \* the tree the host holds: live, disposed, or stranded
  current,    \* the bundle behind the host's instance
  web,        \* webMem: the version the web dist in memory came with
  assets,     \* the asset directory the running platform is pointed at
  told,       \* the product holds the very instance the host holds
  previous,   \* previousAssets: the pointer before the swap under way
  queue,      \* opQueue: the pushes not yet answered, the running one first
  step,       \* where doUpgradeAll stands for the head of the queue
  \* outside
  version,    \* the version each push carries
  push,       \* what became of each push
  req,        \* what became of each request
  waits,      \* the pushes that were in opQueue when a request took its tail
  starts

disk == <<store, newer, placed, torn, manifest>>
tree == <<instance, current, web, assets, told, previous>>
clients == <<req, waits>>
vars == <<disk, up, tree, queue, step, version, push, clients, starts>>

Codes == Versions \union {Packaged}

Steps == {"idle", "store", "import", "place", "mark", "swap", "boot", "recover",
          "cli", "web", "commit", "prune platform", "prune cli", "prune web",
          "prune assets"}

Answers == {"ok", "unpersisted", "blocked", "error"}

\* What a version's push left in a store that held nothing else.
PartsOf(k, v) == IF v = Packaged THEN {} ELSE {Part[k][v]} \ {NoPart}

\* The process has not been started, on a root that never saw a push or on one
\* that holds a committed version.
Init ==
  /\ manifest \in Roots
  /\ store = [k \in Kinds |-> PartsOf(k, manifest)]
  /\ newer = [k \in Kinds |-> {}]
  /\ placed = PartsOf("assets", manifest)
  /\ torn = {}
  /\ up = FALSE
  /\ instance = "gone"
  /\ current = Packaged
  /\ web = Packaged
  /\ assets = NoPart
  /\ told = TRUE
  /\ previous = NoPart
  /\ queue = <<>>
  /\ step = "idle"
  /\ version \in [Pushes -> Versions]
  /\ push = [p \in Pushes |-> "unsent"]
  /\ req = [r \in Requests |-> "unsent"]
  /\ waits = [r \in Requests |-> {}]
  /\ starts = 0

-----------------------------------------------------------------------------
(* The store *)

\* An artifact written under its hash: the file that is there already is left
\* untouched, and keeps the age it has.
Written(k, name) ==
  IF name \in store[k]
    THEN /\ store' = store
         /\ newer' = newer
    ELSE /\ store' = [store EXCEPT ![k] = @ \union {name}]
         /\ newer' = [newer EXCEPT ![k] = @ \union ({name} \X store[k])]

\* Mutant of Kept: the pruning goes by age alone.
KeptByAge(k) ==
  {a \in store[k] :
     Cardinality({b \in store[k] : <<b, a>> \in newer[k]}) < StoreKeep}

\* What pruneStore keeps of one kind: the StoreKeep most recently written, and
\* the one harness.json names.
Kept(k) ==
  LET Ahead(a) == {b \in store[k] : <<b, a>> \in newer[k]}
      Referenced == IF manifest = Packaged THEN {} ELSE {Part[k][manifest]}
  IN  {a \in store[k] : Cardinality(Ahead(a)) < StoreKeep} \union
        (Referenced \intersect store[k])

\* Names leave the store, and with them what was known of their age.
Removed(k, gone) ==
  /\ store' = [store EXCEPT ![k] = @ \ gone]
  /\ newer' = [newer EXCEPT ![k] = {e \in @ : e[1] \notin gone /\ e[2] \notin gone}]

-----------------------------------------------------------------------------
(* Pushes: HmrHost.upgradeAll, doUpgradeAll and the kernel's upgrade *)

Running == Head(queue)
Pushed == version[Running]
PushedAssets == Part["assets"][Pushed]

\* Mutant of Answered: a push that failed stays at the head of the queue.
AnsweredButHeld(answer) ==
  /\ push' = [push EXCEPT ![Running] = answer]
  /\ queue' = IF answer = "error" THEN queue ELSE Tail(queue)
  /\ step' = "idle"

\* The running push is answered, and the next in the queue may begin.
Answered(answer) ==
  /\ push' = [push EXCEPT ![Running] = answer]
  /\ queue' = Tail(queue)
  /\ step' = "idle"

\* The step s of the running push, which may be a failure that only answers.
At(s) == up /\ step = s /\ queue /= <<>>

\* POST /api/hmr/upgrade reaches upgradeAll: the push is chained to the queue.
Push(p) ==
  /\ up
  /\ push[p] = "unsent"
  /\ push' = [push EXCEPT ![p] = "queued"]
  /\ queue' = Append(queue, p)
  /\ UNCHANGED <<disk, up, tree, step, version, clients, starts>>

\* The first part of doUpgradeAll: a web dist that will not do is refused
\* before anything is written.
Begin ==
  /\ At("idle")
  /\ \/ step' = "store" /\ UNCHANGED <<queue, push>>
     \/ Answered("error")
  /\ UNCHANGED <<disk, up, tree, version, clients, starts>>

\* The bundle goes to its place in the store before anybody knows whether it
\* boots.
StorePlatformBundle ==
  /\ At("store")
  /\ \/ /\ Written("platform", Part["platform"][Pushed])
        /\ step' = "import"
        /\ UNCHANGED <<queue, push>>
     \/ /\ Answered("error")
        /\ UNCHANGED <<store, newer>>
  /\ UNCHANGED <<placed, torn, manifest, up, tree, version, clients, starts>>

\* Mutant of ImportBundleFile: a version without assets goes to place them too.
ImportThenPlace ==
  /\ At("import")
  /\ \/ step' = "place" /\ UNCHANGED <<queue, push>>
     \/ Answered("error")
  /\ UNCHANGED <<disk, up, tree, version, clients, starts>>

ImportBundleFile ==
  /\ At("import")
  /\ \/ /\ step' = IF PushedAssets = NoPart THEN "swap" ELSE "place"
        /\ UNCHANGED <<queue, push>>
     \/ Answered("error")
  /\ UNCHANGED <<disk, up, tree, version, clients, starts>>

\* materializeAssets, from its look at the marker to the last file: a set that
\* is complete is reused, one that is not is written or repaired.  (What fails before
\* there is a directory ends as a failing ImportBundleFile does.)
PlaceAssets ==
  /\ At("place")
  /\ \/ /\ PushedAssets \in placed
        /\ step' = "swap"
        /\ UNCHANGED <<store, newer, queue, push>>
     \/ /\ PushedAssets \notin placed
        /\ Written("assets", PushedAssets)
        /\ \/ step' = "mark" /\ UNCHANGED <<queue, push>>
           \/ Answered("error")
  /\ UNCHANGED <<placed, torn, manifest, up, tree, version, clients, starts>>

\* ... and the marker, written last, which makes the directory the newest.
MarkAssets ==
  /\ At("mark")
  /\ \/ /\ placed' = placed \union {PushedAssets}
        /\ torn' = torn \ {PushedAssets}
        /\ newer' = [newer EXCEPT !["assets"] =
                       {e \in @ : e[2] /= PushedAssets /\ e[1] /= PushedAssets} \union
                         ({PushedAssets} \X (store["assets"] \ {PushedAssets}))]
        /\ step' = "swap"
        /\ UNCHANGED <<queue, push>>
     \/ /\ Answered("error")
        /\ UNCHANGED <<placed, torn, newer>>
  /\ UNCHANGED <<store, manifest, up, tree, version, clients, starts>>

Queued == {queue[i] : i \in DOMAIN queue}

\* A request whose wait is over: its continuation runs before the event loop
\* takes the next completed I/O.
Due(r) == req[r] = "waiting" /\ waits[r] \intersect Queued = {}

\* The running tree parks, or fails to.  Where its document does not fit the new
\* interface the push is blocked, and hmr.upgrade points the product at the
\* instance there is.  Nothing else has changed.
Block ==
  /\ At("swap")
  /\ \/ Answered("blocked") /\ told' = TRUE
     \/ Answered("error") /\ UNCHANGED told
  /\ UNCHANGED <<disk, up, instance, current, web, assets, previous, version,
                 clients, starts>>

\* Else, in one go, the pushed assets are published and the old tree is disposed.
Dispose ==
  /\ At("swap")
  /\ \A r \in Requests : ~ Due(r)
  /\ previous' = assets
  /\ assets' = IF PushedAssets = NoPart THEN assets ELSE PushedAssets
  /\ instance' = "disposed"
  /\ step' = "boot"
  /\ UNCHANGED <<disk, up, current, web, told, queue, version, push, clients,
                 starts>>

\* Mutant of BootPushed: the web dist in memory is left to a later step.
BootPlatformOnly ==
  /\ At("boot")
  /\ instance' = "live"
  /\ current' = Pushed
  /\ told' = FALSE
  /\ step' = "cli"
  /\ UNCHANGED <<disk, up, web, assets, previous, queue, version, push, clients,
                 starts>>

\* The new tree booted and was admitted: platform and web are its version's.
BootPushed ==
  /\ At("boot")
  /\ instance' = "live"
  /\ current' = Pushed
  /\ web' = Pushed
  /\ told' = FALSE
  /\ step' = "cli"
  /\ UNCHANGED <<disk, up, assets, previous, queue, version, push, clients,
                 starts>>

\* Mutant of BootFails: the asset pointer stays with the version that failed.
BootFailsHere ==
  /\ At("boot")
  /\ step' = "recover"
  /\ UNCHANGED <<disk, up, tree, queue, version, push, clients, starts>>

\* The disposal, the drain, the boot or the admission failed.
BootFails ==
  /\ At("boot")
  /\ assets' = previous
  /\ step' = "recover"
  /\ UNCHANGED <<disk, up, instance, current, web, told, previous, queue, version,
                 push, clients, starts>>

\* The previous bundle is booted again from the parked document; should that
\* fail too, the disposed tree stays.  upgradeAll throws either way, so
\* hmr.upgrade never comes to tell the product.
RecoverPrevious ==
  /\ At("recover")
  /\ \/ instance' = "live" /\ told' = FALSE
     \/ instance' = "stranded" /\ UNCHANGED told
  /\ Answered("error")
  /\ UNCHANGED <<disk, up, current, web, assets, previous, version, clients,
                 starts>>

\* The version runs and is being written down; what cannot be written leaves it
\* running and answers that it is not durable.
NotPersisted ==
  /\ \E s \in {"cli", "web", "commit"} : At(s)
  /\ Answered("unpersisted")
  /\ told' = TRUE
  /\ UNCHANGED <<disk, up, instance, current, web, assets, previous, version,
                 clients, starts>>

\* persistVersion: the two artifacts the boot did not need ...
StoreArtifact(k, next) ==
  /\ At(k)
  /\ Written(k, Part[k][Pushed])
  /\ step' = next
  /\ UNCHANGED <<placed, torn, manifest, up, tree, queue, version, push, clients,
                 starts>>

\* ... and the one rename that makes all of them the committed version.
Commit ==
  /\ At("commit")
  /\ manifest' = Pushed
  /\ step' = "prune platform"
  /\ UNCHANGED <<store, newer, placed, torn, up, tree, queue, version, push, clients,
                 starts>>

\* pruneStore goes over one kind after the other; a removal that fails is let be.
Prune(k, at, next) ==
  /\ At(at)
  /\ \E gone \in SUBSET (store[k] \ Kept(k)) : Removed(k, gone)
  /\ step' = next
  /\ UNCHANGED <<placed, torn, manifest, up, tree, queue, version, push, clients,
                 starts>>

\* The directories come last, and the files of one go one by one: a removal cut
\* short, by an error or by the end of the process, leaves the directory and
\* perhaps its marker (and renews its age, which `newer` leaves out).  Then the
\* push is answered, and the product told.
PruneAssets ==
  /\ At("prune assets")
  /\ \E gone \in SUBSET (store["assets"] \ Kept("assets")) :
     \E part \in SUBSET (store["assets"] \ (Kept("assets") \union gone)) :
     \E unmarked \in {{}, part} :
        /\ Removed("assets", gone)
        /\ torn' = (torn \ gone) \union part
        /\ placed' = placed \ (gone \union unmarked)
  /\ Answered("ok")
  /\ told' = TRUE
  /\ UNCHANGED <<manifest, up, instance, current, web, assets, previous, version,
                 clients, starts>>

Persist ==
  \/ StoreArtifact("cli", "web")
  \/ StoreArtifact("web", "commit")
  \/ Commit
  \/ Prune("platform", "prune platform", "prune cli")
  \/ Prune("cli", "prune cli", "prune web")
  \/ Prune("web", "prune web", "prune assets")
  \/ PruneAssets

-----------------------------------------------------------------------------
(* Requests: hmr.current *)

\* Mutant of Arrive: the request does not wait out the swap under way.
ArriveAtOnce(r) ==
  /\ up
  /\ req[r] = "unsent"
  /\ req' = [req EXCEPT ![r] = "waiting"]
  /\ UNCHANGED <<disk, up, tree, queue, step, version, push, waits, starts>>

\* A request takes hold of the queue's tail.
Arrive(r) ==
  /\ up
  /\ req[r] = "unsent"
  /\ req' = [req EXCEPT ![r] = "waiting"]
  /\ waits' = [waits EXCEPT ![r] = Queued]
  /\ UNCHANGED <<disk, up, tree, queue, step, version, push, starts>>

\* Its wait over, it is handed the instance the host holds.
HandOver(r) ==
  /\ up
  /\ Due(r)
  /\ req' = [req EXCEPT ![r] = instance]
  /\ UNCHANGED <<disk, up, tree, queue, step, version, push, waits, starts>>

-----------------------------------------------------------------------------
(* The process *)

\* The process ends at any moment, and with it all that was in memory.
Crash ==
  /\ up
  /\ up' = FALSE
  /\ instance' = "gone"
  /\ current' = Packaged
  /\ web' = Packaged
  /\ assets' = NoPart
  /\ previous' = NoPart
  /\ told' = TRUE
  /\ queue' = <<>>
  /\ step' = "idle"
  /\ push' = [p \in Pushes |-> IF push[p] = "queued" THEN "lost" ELSE push[p]]
  /\ req' = [r \in Requests |-> IF req[r] = "waiting" THEN "lost" ELSE req[r]]
  /\ UNCHANGED <<disk, version, waits, starts>>

\* The files restore looks for before it imports anything.
CommittedFiles ==
  /\ \A k \in Kinds \ {"assets"} : Part[k][manifest] \in store[k]
  /\ Part["assets"][manifest] \in store["assets"] \union {NoPart}

\* Everything of the committed version loads, and it is resumed as one unit.
Restore ==
  /\ manifest /= Packaged
  /\ CommittedFiles
  /\ current' = manifest
  /\ web' = manifest
  /\ assets' = Part["assets"][manifest]

\* Nothing is committed, or what is does not load or boot: the packaged version
\* runs.  Where restore came as far as publishing the assets they stay published.
BootPackaged ==
  /\ current' = Packaged
  /\ web' = Packaged
  /\ \/ assets' = NoPart
     \/ /\ manifest /= Packaged
        /\ Part["assets"][manifest] \in store["assets"]
        /\ assets' = Part["assets"][manifest]

\* The first boot.  The listener answers every request until it is over, and
\* hmrMain tells the product at its end.  The packaged version always boots: without that no
\* request could be answered at all.
Start ==
  /\ ~ up
  /\ starts < MaxStarts
  /\ starts' = starts + 1
  /\ up' = TRUE
  /\ instance' = "live"
  /\ told' = TRUE
  /\ Restore \/ BootPackaged
  /\ UNCHANGED <<disk, previous, queue, step, version, push, clients>>

-----------------------------------------------------------------------------

Swap ==
  \/ Begin \/ StorePlatformBundle \/ ImportBundleFile \/ PlaceAssets \/ MarkAssets
  \/ Block \/ Dispose \/ BootPushed \/ BootFails \/ RecoverPrevious
  \/ NotPersisted \/ Persist

Next ==
  \/ \E p \in Pushes : Push(p)
  \/ Swap
  \/ \E r \in Requests : Arrive(r) \/ HandOver(r)
  \/ Crash
  \/ Start

Spec == Init /\ [][Next]_vars

\* The event loop goes on: file operations and boots come to an end one way or
\* the other, and a continuation that may run does.
Fairness ==
  /\ WF_vars(Swap)
  /\ \A r \in Requests : WF_vars(HandOver(r))

FairSpec == Spec /\ Fairness

-----------------------------------------------------------------------------
(* Properties *)

DiskTyped ==
  /\ store \in [Kinds -> SUBSET Names]
  /\ newer \in [Kinds -> SUBSET (Names \X Names)]
  /\ placed \subseteq Names
  /\ torn \subseteq Names
  /\ manifest \in Codes

TreeTyped ==
  /\ up \in BOOLEAN
  /\ instance \in {"live", "disposed", "stranded", "gone"}
  /\ current \in Codes
  /\ web \in Codes
  /\ assets \in Names \union {NoPart}
  /\ told \in BOOLEAN
  /\ previous \in Names \union {NoPart}
  /\ starts \in 0 .. MaxStarts

QueueTyped ==
  /\ queue \in Seq(Pushes)
  /\ step \in Steps
  /\ version \in [Pushes -> Versions]
  /\ push \in [Pushes -> {"unsent", "queued", "lost"} \union Answers]

ClientsTyped ==
  /\ req \in [Requests -> {"unsent", "waiting", "lost", "live", "disposed",
                           "stranded", "gone"}]
  /\ waits \in [Requests -> SUBSET Pushes]

TypeOK == DiskTyped /\ TreeTyped /\ QueueTyped /\ ClientsTyped

\* Whatever happens between two steps of a push, and however often versions are
\* pushed again or fail, the version that harness.json names is in the store
\* with every artifact, and its asset directory holds its marker (persistVersion,
\* pruneStore, materializeAssets).  That the marker can be trusted is another
\* matter: a torn directory may have kept it, and a later push of the same set
\* then takes it as it is.
CommittedIsWhole ==
  manifest /= Packaged =>
    /\ CommittedFiles
    /\ Part["assets"][manifest] \in placed \union {NoPart}

\* Nothing that is done for another version, and no removal cut short, takes an
\* artifact from the committed version or a file from its assets (pruneStore).
CommittedIsSpared ==
  [][manifest /= Packaged /\ manifest' = manifest =>
       /\ \A k \in Kinds : Part[k][manifest] \in store[k] =>
                            Part[k][manifest] \in store'[k]
       /\ Part["assets"][manifest] \in torn' => Part["assets"][manifest] \in torn]_vars

\* A pushed version that carries native assets finds its own set, marked, at
\* the pointer the host gives it, while it boots and for as long as it runs:
\* after a push that failed or was blocked, after a recovery, after a restart
\* (publishAssets and its previousAssets, restore).
RunningHasAssets ==
  /\ current /= Packaged /\ instance = "live" /\ Part["assets"][current] /= NoPart =>
       assets = Part["assets"][current] /\ assets \in placed
  /\ step = "boot" /\ PushedAssets /= NoPart =>
       assets = PushedAssets /\ assets \in placed

\* A request is never handed the tree that a swap has just disposed; only where
\* the recovery of a failed push failed too is the host left with a dead one
\* (hmr.current, waitIdle).
NoneHandedDisposed == \A r \in Requests : req[r] \notin {"disposed", "gone"}

\* Seen from outside, platform and web change together and at once, to a version
\* that booted; only a version that ran becomes durable; and a restart resumes
\* the durable version as a whole or the packaged one as a whole.
D == INSTANCE Deployment WITH
       running <- IF up THEN <<current, web>> ELSE <<>>,
       durable <- manifest

KeepsDeployment == D!Spec

\* Every push is answered and every request is handed to a tree, unless the
\* process ends first, and however many pushes arrive behind the request.
EverybodyAnswered ==
  /\ \A p \in Pushes : push[p] = "queued" ~> push[p] /= "queued"
  /\ \A r \in Requests : req[r] = "waiting" ~> req[r] /= "waiting"

\* With no push under way the product holds the instance that is current, "and
\* the product is told either way" (packages/hmr/src/main.ts:81).
ToldOfCurrent == up /\ queue = <<>> => told
=============================================================================
