--------------------------- MODULE HotSwapProofs ---------------------------
(***************************************************************************)
(* Proofs about HotSwap, for any versions, pushes, requests and store.     *)
(* The inductive invariant SwapOK says, beside the types: where the step   *)
(* under way stands with the process, the queue and the instance; which    *)
(* artifacts of the pushed version are in the store at each step; which    *)
(* asset set the pointer names, and which one a failed boot goes back to;  *)
(* and that no request is left whose wait is over while a tree is down.    *)
(***************************************************************************)
EXTENDS HotSwap, TLAPS

ProcessOK ==
  /\ up <=> instance /= "gone"
  /\ ~ up => queue = <<>> /\ current = Packaged
  /\ step /= "idle" => up /\ queue /= <<>>
  /\ instance = "disposed" <=> step \in {"boot", "recover"}
  /\ web = current
  /\ step \in {"cli", "web", "commit"} => current = Pushed
  /\ step \in {"prune platform", "prune cli", "prune web", "prune assets"} =>
       current = Pushed /\ manifest = Pushed

Stored(k) == Part[k][Pushed] \in store[k]

StoredOK ==
  /\ step \in {"import", "place", "mark", "swap", "boot", "cli", "web", "commit"} =>
       Stored("platform")
  /\ step \in {"web", "commit"} => Stored("cli")
  /\ step = "commit" => Stored("web")
  /\ step = "place" => PushedAssets /= NoPart
  /\ step = "mark" => PushedAssets /= NoPart /\ Stored("assets")
  /\ step \in {"swap", "boot", "cli", "web", "commit"} =>
       PushedAssets \in placed \union {NoPart}
  /\ placed \subseteq store["assets"]
  /\ CommittedIsWhole

\* The pointer p is that of the running bundle, as far as it has one.
Own(p) ==
  current /= Packaged /\ Part["assets"][current] /= NoPart =>
    p = Part["assets"][current] /\ p \in placed

AssetsOK ==
  /\ step /= "boot" => Own(assets)
  /\ step = "boot" =>
       Own(previous) /\ (PushedAssets /= NoPart => assets = PushedAssets)

RequestsOK ==
  /\ NoneHandedDisposed
  /\ step \in {"boot", "recover"} => \A r \in Requests : ~ Due(r)

SwapOK == TypeOK /\ ProcessOK /\ StoredOK /\ AssetsOK /\ RequestsOK

-----------------------------------------------------------------------------
\* The pruning keeps what harness.json names.
LEMMA KeepsCommitted ==
    ASSUME NEW k \in Kinds, manifest /= Packaged, Part[k][manifest] \in store[k]
    PROVE  Part[k][manifest] \in Kept(k)
BY DEF Kept

\* The push at the head of the queue, and the ones behind it.
LEMMA HeadTyped ==
    ASSUME QueueTyped, queue /= <<>>
    PROVE  /\ Head(queue) \in Pushes
           /\ version[Head(queue)] \in Versions
           /\ Tail(queue) \in Seq(Pushes)
           /\ Queued /= {}
<1>1. 1 \in DOMAIN queue
  BY DEF QueueTyped
<1> QED BY <1>1 DEF QueueTyped, Queued

\* A push that joins the queue leaves its head alone.
LEMMA HeadStays ==
    ASSUME QueueTyped, NEW p \in Pushes, queue' = Append(queue, p)
    PROVE  /\ queue /= <<>> => Head(queue') = Head(queue)
           /\ queue' /= <<>>
           /\ Queued \subseteq Queued'
BY DEF QueueTyped, Queued

\* One written under its hash is in the store, which loses nothing.
LEMMA WrittenTyped ==
    ASSUME DiskTyped, NEW k \in Kinds, NEW name \in Names, Written(k, name)
    PROVE  /\ store' \in [Kinds -> SUBSET Names]
           /\ newer' \in [Kinds -> SUBSET (Names \X Names)]
BY DEF DiskTyped, Written

\* Nor does a removal put anything there.
LEMMA RemovedTyped ==
    ASSUME DiskTyped, NEW k \in Kinds, NEW gone, Removed(k, gone)
    PROVE  /\ store' \in [Kinds -> SUBSET Names]
           /\ newer' \in [Kinds -> SUBSET (Names \X Names)]
           /\ store'[k] = store[k] \ gone
           /\ \A j \in Kinds \ {k} : store'[j] = store[j]
BY DEF DiskTyped, Removed

\* What every step is made of.
USE HotSwapAssumption DEF Codes, Kinds, Written, Answered, At, Running, Pushed,
    PushedAssets, disk, tree, clients

\* Every step keeps the types, on disk,
LEMMA DiskStep ==
    ASSUME SwapOK, [Next]_vars
    PROVE  DiskTyped'
<1> USE DEF DiskTyped, SwapOK, TypeOK, ProcessOK, StoredOK
<1>1. CASE StorePlatformBundle
  BY <1>1, HeadTyped, WrittenTyped DEF StorePlatformBundle
<1>2. CASE PlaceAssets
  BY <1>2, HeadTyped, WrittenTyped DEF PlaceAssets
<1>3. CASE MarkAssets
  BY <1>3, HeadTyped DEF MarkAssets
<1>4. CASE StoreArtifact("cli", "web")
  BY <1>4, HeadTyped, WrittenTyped DEF StoreArtifact
<1>5. CASE StoreArtifact("web", "commit")
  BY <1>5, HeadTyped, WrittenTyped DEF StoreArtifact
<1>6. CASE Commit
  BY <1>6, HeadTyped DEF Commit
<1>7. CASE Prune("platform", "prune platform", "prune cli")
  BY <1>7, RemovedTyped DEF Prune
<1>8. CASE Prune("cli", "prune cli", "prune web")
  BY <1>8, RemovedTyped DEF Prune
<1>9. CASE Prune("web", "prune web", "prune assets")
  BY <1>9, RemovedTyped DEF Prune
<1>10. CASE PruneAssets
  BY <1>10, RemovedTyped DEF PruneAssets
<1>11. CASE UNCHANGED disk
  BY <1>11
<1> QED
  BY <1>1, <1>2, <1>3, <1>4, <1>5, <1>6, <1>7, <1>8, <1>9, <1>10, <1>11
     DEF vars, Next, Swap, Persist, Push, Begin, ImportBundleFile,
       Block, Dispose, BootPushed, BootFails, RecoverPrevious, NotPersisted, Arrive,
       HandOver, Crash, Start

\* in the process,
LEMMA TreeStep ==
    ASSUME TreeTyped, DiskTyped, QueueTyped, [Next]_vars
    PROVE  TreeTyped'
<1> USE DEF TreeTyped
<1>1. CASE Block
  BY <1>1 DEF Block
<1>2. CASE Dispose
  BY <1>2, HeadTyped DEF Dispose
<1>3. CASE BootPushed
  BY <1>3, HeadTyped DEF BootPushed
<1>4. CASE BootFails
  BY <1>4 DEF BootFails
<1>5. CASE RecoverPrevious
  BY <1>5 DEF RecoverPrevious
<1>6. CASE NotPersisted
  BY <1>6 DEF NotPersisted
<1>7. CASE PruneAssets
  BY <1>7 DEF PruneAssets
<1>8. CASE Crash
  BY <1>8 DEF Crash
<1>9. CASE Start
  BY <1>9 DEF Start, Restore, BootPackaged, DiskTyped
<1>10. CASE UNCHANGED <<up, tree, starts>>
  BY <1>10
<1> QED
  BY <1>1, <1>2, <1>3, <1>4, <1>5, <1>6, <1>7, <1>8, <1>9, <1>10
     DEF vars, Next, Swap, Persist, Push, Begin, StorePlatformBundle,
       ImportBundleFile, PlaceAssets, MarkAssets, StoreArtifact, Commit, Prune, Arrive,
       HandOver

\* in the queue, where a step answers the running push or lets it go on,
LEMMA QueueStep ==
    ASSUME QueueTyped, [Next]_vars
    PROVE  QueueTyped'
<1>1. ASSUME NEW p \in Pushes, Push(p) PROVE QueueTyped'
  BY <1>1 DEF Push, QueueTyped, Answers
<1>2. CASE Crash
  <2>1. step' \in Steps
    BY <1>2 DEF Crash, Steps
  <2> QED BY <1>2, <2>1 DEF Crash, QueueTyped
<1>3. ASSUME NEW answer \in Answers, Answered(answer), queue /= <<>>,
             UNCHANGED version
      PROVE  QueueTyped'
  BY <1>3, HeadTyped DEF QueueTyped, Steps
<1>4. CASE UNCHANGED <<queue, version, push>> /\ step' \in Steps
  BY <1>4 DEF QueueTyped
<1>5. CASE Swap
  <2> SUFFICES \/ /\ UNCHANGED <<queue, version, push>>
                  /\ step' \in Steps
               \/ /\ \E answer \in Answers : Answered(answer)
                  /\ queue /= <<>>
                  /\ UNCHANGED version
    BY <1>3, <1>4
  <2> USE DEF Steps, Answers, QueueTyped
  <2> HIDE DEF Answered, Written
  <2>1. CASE Begin \/ StorePlatformBundle \/ ImportBundleFile
    BY <2>1 DEF Begin, StorePlatformBundle, ImportBundleFile
  <2>2. CASE PlaceAssets \/ MarkAssets
    BY <2>2 DEF PlaceAssets, MarkAssets
  <2>3. CASE Block \/ Dispose \/ BootPushed \/ BootFails \/ RecoverPrevious
    BY <2>3 DEF Block, Dispose, BootPushed, BootFails, RecoverPrevious
  <2>4. CASE NotPersisted \/ Persist
    BY <2>4 DEF NotPersisted, Persist, StoreArtifact, Commit, Prune, PruneAssets
  <2> QED BY <1>5, <2>1, <2>2, <2>3, <2>4 DEF Swap
<1>6. CASE UNCHANGED <<queue, step, version, push>>
  BY <1>4, <1>6 DEF QueueTyped
<1> QED
  BY <1>1, <1>2, <1>5, <1>6 DEF vars, Next, Arrive, HandOver, Start


\* and outside.
LEMMA ClientsStep ==
    ASSUME ClientsTyped, QueueTyped, TreeTyped, [Next]_vars
    PROVE  ClientsTyped'
<1> USE DEF ClientsTyped
<1>1. ASSUME NEW r \in Requests, Arrive(r) PROVE ClientsTyped'
  <2>1. Queued \in SUBSET Pushes
    BY DEF QueueTyped, Queued
  <2> QED BY <1>1, <2>1 DEF Arrive
<1>2. ASSUME NEW r \in Requests, HandOver(r) PROVE ClientsTyped'
  BY <1>2 DEF HandOver, TreeTyped
<1>3. CASE Crash
  BY <1>3 DEF Crash
<1>4. CASE UNCHANGED clients
  BY <1>4
<1> QED
  BY <1>1, <1>2, <1>3, <1>4
     DEF vars, Next, Swap, Persist, Push, Begin, StorePlatformBundle,
       ImportBundleFile, PlaceAssets, MarkAssets, Block, Dispose, BootPushed, BootFails,
       RecoverPrevious, NotPersisted, StoreArtifact, Commit, Prune, PruneAssets, Start

\* Every step keeps how the step, the queue and the instance hang together,
LEMMA ProcessStep ==
    ASSUME SwapOK, [Next]_vars
    PROVE  ProcessOK'
<1> USE DEF SwapOK, TypeOK, TreeTyped, ProcessOK
<1>1. CASE UNCHANGED vars
  BY <1>1 DEF vars
<1>2. ASSUME NEW p \in Pushes, Push(p) PROVE ProcessOK'
  BY <1>2, HeadStays DEF Push
<1>3. ASSUME NEW r \in Requests, Arrive(r) PROVE ProcessOK'
  BY <1>3 DEF Arrive
<1>4. ASSUME NEW r \in Requests, HandOver(r) PROVE ProcessOK'
  BY <1>4 DEF HandOver
<1>5. CASE Begin
  BY <1>5 DEF Begin
<1>6. CASE StorePlatformBundle
  BY <1>6 DEF StorePlatformBundle
<1>7. CASE ImportBundleFile
  BY <1>7 DEF ImportBundleFile
<1>8. CASE PlaceAssets
  BY <1>8 DEF PlaceAssets
<1>9. CASE MarkAssets
  BY <1>9 DEF MarkAssets
<1>10. CASE Block
  BY <1>10 DEF Block
<1>11. CASE Dispose
  BY <1>11 DEF Dispose
<1>12. CASE BootPushed
  BY <1>12 DEF BootPushed
<1>13. CASE BootFails
  BY <1>13 DEF BootFails
<1>14. CASE RecoverPrevious
  BY <1>14 DEF RecoverPrevious
<1>15. CASE NotPersisted
  BY <1>15 DEF NotPersisted
<1>16. CASE StoreArtifact("cli", "web")
  BY <1>16 DEF StoreArtifact
<1>17. CASE StoreArtifact("web", "commit")
  BY <1>17 DEF StoreArtifact
<1>18. CASE Commit
  BY <1>18 DEF Commit
<1>19. CASE Prune("platform", "prune platform", "prune cli")
  BY <1>19 DEF Prune
<1>20. CASE Prune("cli", "prune cli", "prune web")
  BY <1>20 DEF Prune
<1>21. CASE Prune("web", "prune web", "prune assets")
  BY <1>21 DEF Prune
<1>22. CASE PruneAssets
  BY <1>22 DEF PruneAssets
<1>23. CASE Crash
  BY <1>23 DEF Crash
<1>24. CASE Start
  BY <1>24 DEF Start, Restore, BootPackaged
<1> QED
  BY <1>1, <1>2, <1>3, <1>4, <1>5, <1>6, <1>7, <1>8, <1>9, <1>10, <1>11,
     <1>12, <1>13, <1>14, <1>15, <1>16, <1>17, <1>18, <1>19, <1>20, <1>21, <1>22,
     <1>23, <1>24
     DEF Next, Swap, Persist

\* what is in the store of the pushed version and of the committed one,
LEMMA StoredStep ==
    ASSUME SwapOK, [Next]_vars
    PROVE  StoredOK'
<1> USE DEF SwapOK, TypeOK, DiskTyped, ProcessOK, StoredOK, Stored,
    CommittedIsWhole, CommittedFiles
<1>1. CASE UNCHANGED vars
  BY <1>1 DEF vars
<1>2. ASSUME NEW p \in Pushes, Push(p) PROVE StoredOK'
  BY <1>2, HeadStays DEF Push
<1>3. ASSUME NEW r \in Requests, Arrive(r) PROVE StoredOK'
  BY <1>3 DEF Arrive
<1>4. ASSUME NEW r \in Requests, HandOver(r) PROVE StoredOK'
  BY <1>4 DEF HandOver
<1>5. CASE Begin
  BY <1>5 DEF Begin
<1>6. CASE StorePlatformBundle
  BY <1>6 DEF StorePlatformBundle
<1>7. CASE ImportBundleFile
  BY <1>7 DEF ImportBundleFile
<1>8. CASE PlaceAssets
  BY <1>8 DEF PlaceAssets
<1>9. CASE MarkAssets
  BY <1>9 DEF MarkAssets
<1>10. CASE Block
  BY <1>10 DEF Block
<1>11. CASE Dispose
  BY <1>11 DEF Dispose
<1>12. CASE BootPushed
  BY <1>12 DEF BootPushed
<1>13. CASE BootFails
  BY <1>13 DEF BootFails
<1>14. CASE RecoverPrevious
  BY <1>14 DEF RecoverPrevious
<1>15. CASE NotPersisted
  BY <1>15 DEF NotPersisted
<1>16. CASE StoreArtifact("cli", "web")
  BY <1>16 DEF StoreArtifact
<1>17. CASE StoreArtifact("web", "commit")
  BY <1>17 DEF StoreArtifact
<1>18. CASE Commit
  BY <1>18 DEF Commit
<1>19. CASE Prune("platform", "prune platform", "prune cli")
  <2>1. manifest /= Packaged => Part["platform"][manifest] \in Kept("platform")
    BY <1>19, KeepsCommitted DEF Prune
  <2> QED BY <1>19, <2>1, RemovedTyped DEF Prune
<1>20. CASE Prune("cli", "prune cli", "prune web")
  <2>1. manifest /= Packaged => Part["cli"][manifest] \in Kept("cli")
    BY <1>20, KeepsCommitted DEF Prune
  <2> QED BY <1>20, <2>1, RemovedTyped DEF Prune
<1>21. CASE Prune("web", "prune web", "prune assets")
  <2>1. manifest /= Packaged => Part["web"][manifest] \in Kept("web")
    BY <1>21, KeepsCommitted DEF Prune
  <2> QED BY <1>21, <2>1, RemovedTyped DEF Prune
<1>22. CASE PruneAssets
  <2>1. PICK gone \in SUBSET (store["assets"] \ Kept("assets")),
              unmarked \in SUBSET (store["assets"] \ Kept("assets")) :
           /\ Removed("assets", gone)
           /\ placed' = placed \ (gone \union unmarked)
    BY <1>22 DEF PruneAssets
  <2>2. UNCHANGED <<manifest, current, instance, assets, previous>> /\ step' = "idle"
    BY <1>22 DEF PruneAssets
  <2>3. manifest \in Versions /\ manifest /= Packaged /\ step = "prune assets"
    BY <1>22, HeadTyped DEF PruneAssets
  <2>4. Part["assets"][manifest] \in Kept("assets") \union {NoPart}
    BY <2>3, KeepsCommitted
  <2>5. /\ store'["assets"] = store["assets"] \ gone
        /\ \A j \in Kinds \ {"assets"} : store'[j] = store[j]
    BY <2>1, RemovedTyped
  <2> QED BY <2>1, <2>2, <2>3, <2>4, <2>5
<1>23. CASE Crash
  BY <1>23 DEF Crash
<1>24. CASE Start
  BY <1>24 DEF Start
<1> QED
  BY <1>1, <1>2, <1>3, <1>4, <1>5, <1>6, <1>7, <1>8, <1>9, <1>10, <1>11,
     <1>12, <1>13, <1>14, <1>15, <1>16, <1>17, <1>18, <1>19, <1>20, <1>21, <1>22,
     <1>23, <1>24
     DEF Next, Swap, Persist

\* what the asset pointer names,
LEMMA AssetsStep ==
    ASSUME SwapOK, [Next]_vars
    PROVE  AssetsOK'
<1> USE DEF SwapOK, TypeOK, DiskTyped, ProcessOK, StoredOK, CommittedIsWhole,
    AssetsOK, Own
<1>1. CASE UNCHANGED vars
  BY <1>1 DEF vars
<1>2. ASSUME NEW p \in Pushes, Push(p) PROVE AssetsOK'
  BY <1>2, HeadStays DEF Push
<1>3. ASSUME NEW r \in Requests, Arrive(r) PROVE AssetsOK'
  BY <1>3 DEF Arrive
<1>4. ASSUME NEW r \in Requests, HandOver(r) PROVE AssetsOK'
  BY <1>4 DEF HandOver
<1>5. CASE Begin
  BY <1>5 DEF Begin
<1>6. CASE StorePlatformBundle
  BY <1>6 DEF StorePlatformBundle
<1>7. CASE ImportBundleFile
  BY <1>7 DEF ImportBundleFile
<1>8. CASE PlaceAssets
  BY <1>8 DEF PlaceAssets
<1>9. CASE MarkAssets
  BY <1>9 DEF MarkAssets
<1>10. CASE Block
  BY <1>10 DEF Block
<1>11. CASE Dispose
  BY <1>11 DEF Dispose
<1>12. CASE BootPushed
  BY <1>12 DEF BootPushed
<1>13. CASE BootFails
  BY <1>13 DEF BootFails
<1>14. CASE RecoverPrevious
  BY <1>14 DEF RecoverPrevious
<1>15. CASE NotPersisted
  BY <1>15 DEF NotPersisted
<1>16. CASE StoreArtifact("cli", "web")
  BY <1>16 DEF StoreArtifact
<1>17. CASE StoreArtifact("web", "commit")
  BY <1>17 DEF StoreArtifact
<1>18. CASE Commit
  BY <1>18 DEF Commit
<1>19. CASE Prune("platform", "prune platform", "prune cli")
  BY <1>19 DEF Prune
<1>20. CASE Prune("cli", "prune cli", "prune web")
  BY <1>20 DEF Prune
<1>21. CASE Prune("web", "prune web", "prune assets")
  BY <1>21 DEF Prune
<1>22. CASE PruneAssets
  <2>1. PICK gone \in SUBSET (store["assets"] \ Kept("assets")),
              unmarked \in SUBSET (store["assets"] \ Kept("assets")) :
           /\ Removed("assets", gone)
           /\ placed' = placed \ (gone \union unmarked)
    BY <1>22 DEF PruneAssets
  <2>2. UNCHANGED <<manifest, current, instance, assets, previous>> /\ step' = "idle"
    BY <1>22 DEF PruneAssets
  <2>3. manifest \in Versions /\ manifest /= Packaged /\ step = "prune assets"
    BY <1>22, HeadTyped DEF PruneAssets
  <2>4. Part["assets"][manifest] \in Kept("assets") \union {NoPart}
    BY <2>3, KeepsCommitted
  <2>5. /\ store'["assets"] = store["assets"] \ gone
        /\ \A j \in Kinds \ {"assets"} : store'[j] = store[j]
    BY <2>1, RemovedTyped
  <2> QED BY <2>1, <2>2, <2>3, <2>4, <2>5
<1>23. CASE Crash
  BY <1>23 DEF Crash
<1>24. CASE Start
  BY <1>24 DEF Start, Restore, BootPackaged, CommittedFiles
<1> QED
  BY <1>1, <1>2, <1>3, <1>4, <1>5, <1>6, <1>7, <1>8, <1>9, <1>10, <1>11,
     <1>12, <1>13, <1>14, <1>15, <1>16, <1>17, <1>18, <1>19, <1>20, <1>21, <1>22,
     <1>23, <1>24
     DEF Next, Swap, Persist

\* and whom a request is handed to.
LEMMA RequestsStep ==
    ASSUME SwapOK, [Next]_vars
    PROVE  RequestsOK'
<1> USE DEF SwapOK, TypeOK, ClientsTyped, ProcessOK, RequestsOK,
    NoneHandedDisposed, Due
<1>1. CASE UNCHANGED vars
  <2>1. Queued' = Queued
    BY <1>1 DEF vars, Queued
  <2> QED BY <1>1, <2>1 DEF vars
<1>2. ASSUME NEW p \in Pushes, Push(p) PROVE RequestsOK'
  BY <1>2, HeadStays DEF Push
<1>3. ASSUME NEW r \in Requests, Arrive(r) PROVE RequestsOK'
  <2>1. Queued' = Queued
    BY <1>3 DEF Arrive, Queued
  <2> QED BY <1>3, <2>1, HeadTyped DEF Arrive
<1>4. ASSUME NEW r \in Requests, HandOver(r) PROVE RequestsOK'
  BY <1>4 DEF HandOver
<1>5. CASE Begin
  BY <1>5 DEF Begin
<1>6. CASE StorePlatformBundle
  BY <1>6 DEF StorePlatformBundle
<1>7. CASE ImportBundleFile
  BY <1>7 DEF ImportBundleFile
<1>8. CASE PlaceAssets
  BY <1>8 DEF PlaceAssets
<1>9. CASE MarkAssets
  BY <1>9 DEF MarkAssets
<1>10. CASE Block
  BY <1>10 DEF Block
<1>11. CASE Dispose
  <2>1. Queued' = Queued
    BY <1>11 DEF Dispose, Queued
  <2> QED BY <1>11, <2>1 DEF Dispose
<1>12. CASE BootPushed
  BY <1>12 DEF BootPushed
<1>13. CASE BootFails
  <2>1. Queued' = Queued
    BY <1>13 DEF BootFails, Queued
  <2> QED BY <1>13, <2>1 DEF BootFails
<1>14. CASE RecoverPrevious
  BY <1>14 DEF RecoverPrevious
<1>15. CASE NotPersisted
  BY <1>15 DEF NotPersisted
<1>16. CASE StoreArtifact("cli", "web")
  BY <1>16 DEF StoreArtifact
<1>17. CASE StoreArtifact("web", "commit")
  BY <1>17 DEF StoreArtifact
<1>18. CASE Commit
  BY <1>18 DEF Commit
<1>19. CASE Prune("platform", "prune platform", "prune cli")
  BY <1>19 DEF Prune
<1>20. CASE Prune("cli", "prune cli", "prune web")
  BY <1>20 DEF Prune
<1>21. CASE Prune("web", "prune web", "prune assets")
  BY <1>21 DEF Prune
<1>22. CASE PruneAssets
  BY <1>22 DEF PruneAssets
<1>23. CASE Crash
  BY <1>23 DEF Crash
<1>24. CASE Start
  BY <1>24 DEF Start
<1> QED
  BY <1>1, <1>2, <1>3, <1>4, <1>5, <1>6, <1>7, <1>8, <1>9, <1>10, <1>11,
     <1>12, <1>13, <1>14, <1>15, <1>16, <1>17, <1>18, <1>19, <1>20, <1>21, <1>22,
     <1>23, <1>24
     DEF Next, Swap, Persist

\* Every step is one of the deployment, or none of its business.
LEMMA DeploymentStep ==
    ASSUME SwapOK, [Next]_vars
    PROVE  [D!Next]_<<IF up THEN <<current, web>> ELSE <<>>, manifest>>
<1> USE DEF SwapOK, TypeOK, ProcessOK
<1>1. CASE UNCHANGED vars
  BY <1>1 DEF vars
<1>2. ASSUME NEW p \in Pushes, Push(p) PROVE [D!Next]_<<IF up THEN <<current, web>> ELSE <<>>, manifest>>
  BY <1>2 DEF Push
<1>3. ASSUME NEW r \in Requests, Arrive(r) PROVE [D!Next]_<<IF up THEN <<current, web>> ELSE <<>>, manifest>>
  BY <1>3 DEF Arrive
<1>4. ASSUME NEW r \in Requests, HandOver(r) PROVE [D!Next]_<<IF up THEN <<current, web>> ELSE <<>>, manifest>>
  BY <1>4 DEF HandOver
<1>5. CASE Begin
  BY <1>5 DEF Begin
<1>6. CASE StorePlatformBundle
  BY <1>6 DEF StorePlatformBundle
<1>7. CASE ImportBundleFile
  BY <1>7 DEF ImportBundleFile
<1>8. CASE PlaceAssets
  BY <1>8 DEF PlaceAssets
<1>9. CASE MarkAssets
  BY <1>9 DEF MarkAssets
<1>10. CASE Block
  BY <1>10 DEF Block
<1>11. CASE Dispose
  BY <1>11 DEF Dispose
<1>12. CASE BootPushed
  BY <1>12, HeadTyped DEF BootPushed, D!Next, D!Land, D!Unit
<1>13. CASE BootFails
  BY <1>13 DEF BootFails
<1>14. CASE RecoverPrevious
  BY <1>14 DEF RecoverPrevious
<1>15. CASE NotPersisted
  BY <1>15 DEF NotPersisted
<1>16. CASE StoreArtifact("cli", "web")
  BY <1>16 DEF StoreArtifact
<1>17. CASE StoreArtifact("web", "commit")
  BY <1>17 DEF StoreArtifact
<1>18. CASE Commit
  BY <1>18, HeadTyped DEF Commit, D!Next, D!Commit, D!Unit
<1>19. CASE Prune("platform", "prune platform", "prune cli")
  BY <1>19 DEF Prune
<1>20. CASE Prune("cli", "prune cli", "prune web")
  BY <1>20 DEF Prune
<1>21. CASE Prune("web", "prune web", "prune assets")
  BY <1>21 DEF Prune
<1>22. CASE PruneAssets
  BY <1>22 DEF PruneAssets
<1>23. CASE Crash
  BY <1>23 DEF Crash, D!Next, D!Stop
<1>24. CASE Start
  BY <1>24 DEF Start, D!Next, D!Start, D!Unit, Restore, BootPackaged
<1> QED
  BY <1>1, <1>2, <1>3, <1>4, <1>5, <1>6, <1>7, <1>8, <1>9, <1>10, <1>11,
     <1>12, <1>13, <1>14, <1>15, <1>16, <1>17, <1>18, <1>19, <1>20, <1>21, <1>22,
     <1>23, <1>24
     DEF Next, Swap, Persist

\* No step for another version takes anything from the committed one.
LEMMA SparedStep ==
    ASSUME SwapOK, [Next]_vars, manifest /= Packaged, NEW k \in Kinds,
           Part[k][manifest] \in store[k]
    PROVE  Part[k][manifest] \in store'[k]
<1>0. Part[k][manifest] \in Kept(k)
  BY KeepsCommitted
<1>1. ASSUME NEW j \in Kinds, NEW name, Written(j, name)
      PROVE  Part[k][manifest] \in store'[k]
  BY <1>1 DEF SwapOK, TypeOK, DiskTyped
<1>2. ASSUME NEW j \in Kinds, NEW gone \in SUBSET (store[j] \ Kept(j)), Removed(j, gone)
      PROVE  Part[k][manifest] \in store'[k]
  BY <1>0, <1>2, RemovedTyped DEF SwapOK, TypeOK
<1>3. CASE UNCHANGED store
  BY <1>3
<1>4. CASE Persist
  BY <1>1, <1>2, <1>3, <1>4 DEF Persist, StoreArtifact, Commit, Prune, PruneAssets
<1> HIDE DEF Written
<1>5. CASE StorePlatformBundle \/ PlaceAssets
  BY <1>1, <1>3, <1>5 DEF StorePlatformBundle, PlaceAssets
<1> QED
  BY <1>3, <1>4, <1>5
     DEF vars, Next, Swap, Push, Begin, ImportBundleFile, MarkAssets, Block, Dispose,
       BootPushed, BootFails, RecoverPrevious, NotPersisted, Arrive, HandOver, Crash,
       Start

\* Nor does a removal cut short take files from its assets.
LEMMA UntornStep ==
    ASSUME SwapOK, [Next]_vars, manifest /= Packaged,
           Part["assets"][manifest] \in torn'
    PROVE  Part["assets"][manifest] \in torn
<1>1. CASE PruneAssets
  <2>1. PICK gone \in SUBSET store["assets"],
              part \in SUBSET (store["assets"] \ Kept("assets")) :
           torn' = (torn \ gone) \union part
    BY <1>1 DEF PruneAssets
  <2>2. Part["assets"][manifest] \in store["assets"] =>
          Part["assets"][manifest] \in Kept("assets")
    BY KeepsCommitted
  <2> QED BY <2>1, <2>2
<1>2. CASE MarkAssets
  BY <1>2 DEF MarkAssets
<1>3. CASE UNCHANGED torn
  BY <1>3
<1> QED
  BY <1>1, <1>2, <1>3
     DEF vars, Next, Swap, Persist, Push, Begin, StorePlatformBundle,
       ImportBundleFile, PlaceAssets, Block, Dispose, BootPushed, BootFails,
       RecoverPrevious, NotPersisted, StoreArtifact, Commit, Prune, Arrive, HandOver,
       Crash, Start

-----------------------------------------------------------------------------
\* The inductive invariant.
THEOREM HotSwapInvariant == Spec => []SwapOK
<1>1. Init => SwapOK
  <2> SUFFICES ASSUME Init PROVE SwapOK
    OBVIOUS
  <2> USE DEF Init, PartsOf
  <2>1. TypeOK
    <3>1. DiskTyped
      BY DEF DiskTyped
    <3>2. TreeTyped
      <4>1. starts \in 0 .. MaxStarts
        OBVIOUS
      <4> HIDE HotSwapAssumption
      <4> QED BY <4>1 DEF TreeTyped
    <3>3. ClientsTyped
      BY DEF ClientsTyped
    <3>4. QueueTyped
      BY DEF QueueTyped, Steps
    <3> QED BY <3>1, <3>2, <3>3, <3>4 DEF TypeOK
  <2>2. ProcessOK /\ AssetsOK /\ RequestsOK
    BY DEF ProcessOK, AssetsOK, Own, RequestsOK, NoneHandedDisposed
  <2>3. StoredOK
    BY DEF StoredOK, CommittedIsWhole, CommittedFiles
  <2> QED BY <2>1, <2>2, <2>3 DEF SwapOK
<1>2. SwapOK /\ [Next]_vars => SwapOK'
  <2> SUFFICES ASSUME SwapOK, [Next]_vars PROVE SwapOK'
    OBVIOUS
  <2>1. TypeOK'
    BY DiskStep, TreeStep, QueueStep, ClientsStep DEF SwapOK, TypeOK
  <2> QED BY <2>1, ProcessStep, StoredStep, AssetsStep, RequestsStep DEF SwapOK
<1> QED BY <1>1, <1>2, PTL DEF Spec

\* The types of everything, at every step.
THEOREM HotSwapTypeCorrect == Spec => []TypeOK
<1>1. SwapOK => TypeOK
  BY DEF SwapOK
<1> QED BY <1>1, HotSwapInvariant, PTL

\* The version harness.json names is whole, through pushes, failures and crashes.
THEOREM HotSwapCommittedIsWhole == Spec => []CommittedIsWhole
<1>1. SwapOK => CommittedIsWhole
  BY DEF SwapOK, StoredOK
<1> QED BY <1>1, HotSwapInvariant, PTL

\* A version that carries native assets boots and runs with its own, marked.
THEOREM HotSwapRunningHasAssets == Spec => []RunningHasAssets
<1>1. SwapOK => RunningHasAssets
  BY DEF SwapOK, TypeOK, ProcessOK, AssetsOK, Own, StoredOK, RunningHasAssets
<1> QED BY <1>1, HotSwapInvariant, PTL

\* No request is handed a tree that a swap has disposed.
THEOREM HotSwapNoneHandedDisposed == Spec => []NoneHandedDisposed
<1>1. SwapOK => NoneHandedDisposed
  BY DEF SwapOK, RequestsOK
<1> QED BY <1>1, HotSwapInvariant, PTL

\* The mechanism, with its queue, failures, recovery, store and crashes, implements
\* the deployment of whole versions.
THEOREM HotSwapKeepsDeployment == Spec => KeepsDeployment
<1>1. Init => D!Init
  BY DEF Init, D!Init
<1>2. SwapOK /\ [Next]_vars => [D!Next]_<<IF up THEN <<current, web>> ELSE <<>>, manifest>>
  BY DeploymentStep
<1> QED BY <1>1, <1>2, HotSwapInvariant, PTL DEF Spec, KeepsDeployment, D!Spec

\* Pushing another version, pruning the store, failing or crashing takes nothing
\* from the committed version.
THEOREM HotSwapCommittedIsSpared == Spec => CommittedIsSpared
<1>1. SwapOK /\ [Next]_vars =>
        [manifest /= Packaged /\ manifest' = manifest =>
           /\ \A k \in Kinds : Part[k][manifest] \in store[k] =>
                                Part[k][manifest] \in store'[k]
           /\ Part["assets"][manifest] \in torn' =>
                Part["assets"][manifest] \in torn]_vars
  BY SparedStep, UntornStep
<1> QED BY <1>1, HotSwapInvariant, PTL DEF Spec, CommittedIsSpared
=============================================================================
