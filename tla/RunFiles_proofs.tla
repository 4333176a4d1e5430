--------------------------- MODULE RunFiles_proofs ---------------------------
(* Theorems about RunFiles, for any number of engines, user interfaces and     *)
(* file names, any number of runs and copies, and any number of faults.        *)
EXTENDS RunFiles, TLAPS

-----------------------------------------------------------------------------
(* The inductive invariant *)

Pcs == {"idle", "csv", "raw", "json", "measure", "finish csv", "finish raw", "hash", "tmp", "rename"}
CopyPcs == {"idle", "open csv", "fill csv", "open raw", "fill raw", "rehash", "open json", "fill json",
            "saved", "undo json", "undo raw", "undo csv", "failed"}

Jobs == [pc : Pcs \cup CopyPcs, id : Nat, to : Stems \cup {None}, from : Stems \cup {None},
         says : Says \cup {None}, hash : Hash \cup {None}, error : BOOLEAN, created : SUBSET Kinds]

TypeInv ==
    /\ disk \in [Stems \X Kinds -> Files \cup {None}]
    /\ job \in [Actors -> Jobs]
    /\ jobs \in Nat /\ faults \in Nat

\* Every run and every copy has a number of its own, and files bear it.
IdInv ==
    /\ \A a \in Actors : IF At(a, "idle") THEN job[a].id = 0 ELSE job[a].id \in 1..jobs /\ job[a].to \in Stems
    /\ \A a, b \in Actors : a # b /\ job[a].id = job[b].id => At(a, "idle")
    /\ \A f \in Stems \X Kinds : disk[f] # None => disk[f].by <= jobs

\* The files at a process's destination that it made itself.
Mine(a, k) == Exists(job[a].to, k) /\ disk[Path(a, k)].by = job[a].id
Own(a) == {k \in Kinds : Mine(a, k)}

\* What the engine has made when it gets to p.
Made(p) ==
    CASE p = "csv" -> {}
      [] p = "raw" -> {"csv"}
      [] p = "json" -> {"csv", "raw"}
      [] p \in {"measure", "finish csv", "finish raw", "hash", "tmp"} -> Outcome
      [] p = "rename" -> Kinds

Durable(a, k) == disk[Path(a, k)].synced

RecordInv(a) ==
    LET p == job[a].pc
        fine == ~job[a].error
    IN  /\ p \in Pcs
        /\ p # "idle" =>
             /\ Own(a) = Made(p)
             /\ "json" \in Own(a) => ~disk[Path(a, "json")].says.final
             /\ p = "finish raw" /\ fine => Durable(a, "csv")
             /\ p = "hash" /\ fine => Durable(a, "csv") /\ Durable(a, "raw")
             /\ p \in {"tmp", "rename"} /\ fine /\ job[a].hash # None =>
                  Durable(a, "csv") /\ Durable(a, "raw") /\ job[a].hash = HashOf(job[a].to, TRUE)
             /\ p = "rename" => disk[Path(a, "tmp")].says = Final(TRUE, TRUE, job[a].hash, job[a].error)

\* Copies of the recordings, whole and durable.
Copied(a, K) ==
    /\ "csv" \in K => Durable(a, "csv") /\ disk[Path(a, "csv")].data = job[a].hash.csv
    /\ "raw" \in K => Durable(a, "raw") /\ disk[Path(a, "raw")].data = job[a].hash.raw

\* What a copy has made when it gets to p.
CopyMade(p, says) ==
    CASE p = "open csv" -> {}
      [] p \in {"fill csv", "open raw"} -> {"csv"}
      [] p = "fill raw" -> {"csv", "raw"}
      [] p \in {"rehash", "open json"} -> Kept(says) \ {"json"}
      [] p \in {"fill json", "saved"} -> Kept(says)

Undoing == {"undo json", "undo raw", "undo csv", "failed"}

\* What it is about.
CopyTask(a) ==
    /\ job[a].says \in Says /\ job[a].hash \in Hash
    /\ job[a].says.audit <=> job[a].hash.raw # None

\* Which files it has made.
CopyOwn(a) ==
    LET made == job[a].created
    IN  /\ Own(a) \subseteq made /\ made \subseteq Outcome
        /\ job[a].pc \notin Undoing => made = CopyMade(job[a].pc, job[a].says) /\ Own(a) = made
        /\ job[a].pc = "undo json" => Own(a) = made
        /\ job[a].pc = "undo raw" => made \ {"json"} \subseteq Own(a)
        /\ job[a].pc = "undo csv" => made \cap {"csv"} \subseteq Own(a)

\* What is in them.
CopyContent(a) ==
    LET p == job[a].pc
        says == job[a].says
    IN  /\ p \in {"open raw", "fill raw"} => says.audit /\ Copied(a, {"csv"})
        /\ p \in {"rehash", "open json", "fill json", "saved"} => Copied(a, Kept(says))
        /\ p \in {"open json", "fill json", "saved"} /\ says.hashed =>
              says.hash = HashOf(job[a].to, says.audit)
        /\ p = "fill json" => disk[Path(a, "json")].data = Torn

\* What a cleanup could not remove.
CopyLeft(a) ==
    LET p == job[a].pc
    IN  /\ p \in {"undo raw", "undo csv", "failed"} /\ Mine(a, "json") => Path(a, "json") \in left
        /\ p \in {"undo csv", "failed"} /\ Mine(a, "raw") => Path(a, "raw") \in left
        /\ p = "failed" /\ Mine(a, "csv") => Path(a, "csv") \in left

CopyInv(a) ==
    /\ job[a].pc \in CopyPcs
    /\ job[a].pc # "idle" => CopyTask(a) /\ CopyOwn(a) /\ CopyContent(a) /\ CopyLeft(a)

\* Manifests are whole or torn.
ManifestInv(s) ==
    Exists(s, "json") /\ disk[<<s, "json">>].data # Torn => disk[<<s, "json">>].says \in Says

\* The files a manifest vouches for.
SealInv(s) ==
    Completed(s) /\ <<s, "json">> \notin left =>
        LET says == disk[<<s, "json">>].says
        IN  says.hash # None /\ ~says.error =>
              /\ \A k \in Kept(says) : Exists(s, k) /\ disk[<<s, k>>].by = disk[<<s, "json">>].by
              /\ \A k \in Kept(says) \ {"json"} : disk[<<s, k>>].synced
              /\ HashOf(s, says.audit) = says.hash

IInv ==
    /\ TypeInv
    /\ IdInv
    /\ \A a \in Recorders : RecordInv(a)
    /\ \A a \in Exporters : CopyInv(a)
    /\ \A s \in Stems : ManifestInv(s) /\ SealInv(s)

-----------------------------------------------------------------------------
(* Steps of one process *)

Paths == Stems \X Kinds

\* What a step of the process a may do: it works on its own files only, and it
\* keeps its number and its destination until it is idle.
ActorStep(a) ==
    /\ ~At(a, "idle") /\ job'[a] # job[a] /\ \A b \in Actors \ {a} : job'[b] = job[b]
    /\ \/ job'[a] = Idle
       \/ job'[a].pc # "idle" /\ job'[a].id = job[a].id /\ job'[a].to = job[a].to
    /\ \A f \in Paths : disk'[f] # disk[f] =>
          /\ \E k \in Kinds : f = Path(a, k)
          /\ disk[f] # None => disk[f].by = job[a].id
          /\ disk'[f] # None => disk'[f].by = job[a].id
    /\ left \subseteq left' /\ UNCHANGED <<jobs, faults>>

\* Nothing that exists is None.
LEMMA FileFacts ==
    ASSUME TypeInv, NEW s \in Stems, NEW k \in Kinds
    PROVE  /\ <<s, k>> \in Paths
           /\ disk[<<s, k>>] \in Files \cup {None}
           /\ Exists(s, k) <=> disk[<<s, k>>] \in Files
BY NoneAssumption DEF TypeInv, Paths, Exists

\* The paths of one process differ.
LEMMA PathFacts ==
    ASSUME NEW a \in Actors, job[a].to \in Stems
    PROVE  /\ \A k \in Kinds : Path(a, k) \in Paths /\ Path(a, k) = <<job[a].to, k>>
           /\ \A k, l \in Kinds : Path(a, k) = Path(a, l) => k = l
BY DEF Path, Paths

\* Writing or removing one file.
LEMMA PutFacts ==
    ASSUME TypeInv, NEW f \in Paths, NEW x \in Files \cup {None}, Put(f, x)
    PROVE  /\ disk' \in [Paths -> Files \cup {None}] /\ disk'[f] = x
           /\ \A g \in Paths : g # f => disk'[g] = disk[g]
BY DEF TypeInv, Paths, Put

\* One process goes on.
LEMMA StepFacts ==
    ASSUME TypeInv, NEW a \in Actors, NEW j, Step(a, j)
    PROVE  job'[a] = j /\ (\A b \in Actors \ {a} : job'[b] = job[b]) /\ UNCHANGED <<jobs, faults>>
BY DEF TypeInv, Step

\* The initial states satisfy the invariant.
LEMMA InitInv == Init => IInv
<1> SUFFICES ASSUME Init PROVE IInv
  OBVIOUS
<1>0. PICK audit \in BOOLEAN, hashed \in BOOLEAN :
        LET hash == IF hashed THEN [csv |-> Whole(0), raw |-> Whole(0)] ELSE None
         IN  (hashed => audit) /\ disk = [f \in Stems \X Kinds |->
               CASE f = <<Old, "csv">> -> File(0, Whole(0), TRUE, None)
                 [] f = <<Old, "raw">> /\ audit -> File(0, Whole(0), TRUE, None)
                 [] f = <<Old, "json">> -> File(0, Whole(0), TRUE, Final(audit, hashed, hash, FALSE))
                 [] OTHER -> None]
  BY DEF Init
<1> DEFINE hash == IF hashed THEN [csv |-> Whole(0), raw |-> Whole(0)] ELSE None
           C == File(0, Whole(0), TRUE, None)
           F == Final(audit, hashed, hash, FALSE)
           M == File(0, Whole(0), TRUE, F)
<1>1. hashed => audit
  BY <1>0
<1>2. Whole(0) \in Data /\ Whole(0) # Torn
  BY DEF Whole, Data, Torn
<1>3. hash \in Hash \cup {None} /\ (~hashed => hash = None) /\ (hashed => hash = [csv |-> Whole(0), raw |-> Whole(0)])
  BY <1>2 DEF Hash
<1>4. disk = [f \in Stems \X Kinds |->
               CASE f = <<Old, "csv">> -> C [] f = <<Old, "raw">> /\ audit -> C [] f = <<Old, "json">> -> M
                 [] OTHER -> None]
  BY <1>0
<1> HIDE DEF C, M, hash
<1>5. \A s \in Stems : \A k \in Kinds : disk[<<s, k>>] =
        IF s # Old THEN None ELSE CASE k = "csv" -> C [] k = "raw" -> IF audit THEN C ELSE None
                                    [] k = "json" -> M [] OTHER -> None
  BY <1>4 DEF Kinds
<1>6. F \in Says /\ F.hash = hash /\ F.audit = audit /\ F.hashed = hashed
  BY <1>3 DEF Final, Says
<1> HIDE DEF F
<1>7. C \in Files /\ M \in Files /\ C.by = 0 /\ M.by = 0 /\ C.data = Whole(0) /\ C.synced /\ M.says = F
  BY <1>2, <1>6 DEF Files, C, M, File
<1>8. disk \in [Stems \X Kinds -> Files \cup {None}]
  BY <1>4, <1>7
<1>9. Idle \in Jobs /\ Idle.pc = "idle" /\ Idle.id = 0
  BY DEF Idle, Jobs, Pcs, CopyPcs
<1>10. job = [a \in Actors |-> Idle] /\ jobs = 0 /\ faults = 0
  BY DEF Init
<1>11. TypeInv
  BY <1>8, <1>9, <1>10 DEF TypeInv
<1>12. IdInv
  <2>1. \A f \in Stems \X Kinds : disk[f] # None => disk[f].by <= jobs
    BY <1>4, <1>7, <1>10
  <2> QED BY <1>9, <1>10, <2>1 DEF IdInv, At
<1>13. \A a \in Recorders : RecordInv(a)
  BY <1>9, <1>10 DEF RecordInv, Actors, Pcs
<1>14. \A a \in Exporters : CopyInv(a)
  BY <1>9, <1>10 DEF CopyInv, Actors, CopyPcs
<1>15. ASSUME NEW s \in Stems PROVE ManifestInv(s) /\ SealInv(s)
  <2>1. CASE s # Old
    BY <1>5, <2>1 DEF ManifestInv, SealInv, Completed, Exists, Kinds
  <2>2. CASE s = Old
    <3>1. disk[<<s, "csv">>] = C /\ disk[<<s, "raw">>] = (IF audit THEN C ELSE None) /\ disk[<<s, "json">>] = M
      BY <1>5, <2>2 DEF Kinds
    <3>2. C # None /\ M # None
      BY <1>7, NoneAssumption
    <3>3. ManifestInv(s)
      BY <1>6, <1>7, <3>1 DEF ManifestInv
    <3>4. SealInv(s)
      BY <1>1, <1>3, <1>6, <1>7, <3>1, <3>2 DEF SealInv, Kept, Outcome, HashOf, Exists
    <3> QED BY <3>3, <3>4
  <2> QED BY <2>1, <2>2
<1> QED BY <1>11, <1>12, <1>13, <1>14, <1>15 DEF IInv

\* The files of the others are left alone.
LEMMA OthersFiles ==
    ASSUME IInv, NEW a \in Actors, ActorStep(a), NEW b \in Actors \ {a}, ~At(b, "idle")
    PROVE  /\ job'[b] = job[b] /\ job[b].to \in Stems /\ Own(b)' = Own(b)
           /\ \A k \in Kinds : /\ Path(b, k)' = Path(b, k) /\ (Mine(b, k)' <=> Mine(b, k))
                               /\ k \in Own(b) <=> Mine(b, k)
                               /\ Mine(b, k) => disk'[Path(b, k)] = disk[Path(b, k)]
<1>1. job'[b] = job[b] /\ job[b].to \in Stems /\ job[b].id # job[a].id
  BY DEF ActorStep, IInv, IdInv
<1>2. ASSUME NEW k \in Kinds
      PROVE  /\ Path(b, k)' = Path(b, k) /\ (Mine(b, k)' <=> Mine(b, k))
             /\ Mine(b, k) => disk'[Path(b, k)] = disk[Path(b, k)]
  <2>1. Path(b, k)' = Path(b, k) /\ Path(b, k) = <<job[b].to, k>> /\ Path(b, k) \in Paths
    BY <1>1 DEF Path, Paths
  <2>2. Mine(b, k) <=> disk[Path(b, k)] # None /\ disk[Path(b, k)].by = job[b].id
    BY <2>1 DEF Mine, Exists
  <2>3. Mine(b, k)' <=> disk'[Path(b, k)] # None /\ disk'[Path(b, k)].by = job[b].id
    BY <1>1, <2>1 DEF Mine, Exists
  <2> DEFINE f == Path(b, k)
  <2>4. f \in Paths
    BY <2>1
  <2> HIDE DEF f
  <2>5. disk'[f] # disk[f] => /\ disk[f] # None => disk[f].by = job[a].id
                              /\ disk'[f] # None => disk'[f].by = job[a].id
    BY <2>4 DEF ActorStep
  <2> QED BY <1>1, <2>1, <2>2, <2>3, <2>5 DEF f
<1>3. Own(b)' = Own(b)
  BY <1>2 DEF Own
<1> QED BY <1>1, <1>2, <1>3 DEF Own

\* What the engine knows of its run stands, whatever the others do.
LEMMA OtherRecorders ==
    ASSUME IInv, NEW a \in Actors, ActorStep(a), NEW b \in Recorders \ {a}
    PROVE  RecordInv(b)'
<1>0. b \in Actors \ {a} /\ RecordInv(b)
  BY DEF Actors, IInv
<1>1. CASE At(b, "idle")
  <2>1. job'[b] = job[b]
    BY <1>0 DEF ActorStep
  <2> QED BY <1>1, <2>1, <1>0 DEF RecordInv, At
<1>2. CASE ~At(b, "idle")
  <2>1. /\ job'[b] = job[b] /\ job[b].to \in Stems /\ Own(b)' = Own(b)
        /\ \A k \in Kinds : /\ Path(b, k)' = Path(b, k) /\ (Mine(b, k)' <=> Mine(b, k))
                            /\ k \in Own(b) <=> Mine(b, k)
                            /\ Mine(b, k) => disk'[Path(b, k)] = disk[Path(b, k)]
    BY <1>0, <1>2, OthersFiles
  <2>2. \A k \in Kinds : k \in Own(b) => disk'[<<job[b].to, k>>] = disk[<<job[b].to, k>>]
    BY <2>1 DEF Path
  <2>3. Made(job[b].pc) = Own(b)
    BY <1>0, <1>2 DEF RecordInv, At
  <2>4. job[b].pc \in {"finish raw", "hash", "tmp", "rename"} => {"csv", "raw", "json"} \subseteq Own(b)
    BY <2>3 DEF Made, Outcome, Kinds
  <2>5. job[b].pc = "rename" => "tmp" \in Own(b)
    BY <2>3 DEF Made, Kinds
  <2>6. {"csv", "raw", "json", "tmp"} = Kinds
    BY DEF Kinds
  <2> QED BY <1>0, <1>2, <2>1, <2>2, <2>4, <2>5, <2>6 DEF RecordInv, At, Durable, Path, HashOf
<1> QED BY <1>1, <1>2

\* The files that a copy makes.
LEMMA CopyMadeFacts ==
    ASSUME NEW p, NEW says
    PROVE  /\ p = "open csv" => CopyMade(p, says) = {}
           /\ p \in {"fill csv", "open raw"} => CopyMade(p, says) = {"csv"}
           /\ p = "fill raw" => CopyMade(p, says) = {"csv", "raw"}
           /\ p \in {"rehash", "open json"} => CopyMade(p, says) = IF says.audit THEN {"csv", "raw"} ELSE {"csv"}
           /\ p \in {"fill json", "saved"} => CopyMade(p, says) = Kept(says)
           /\ Kept(says) = IF says.audit THEN {"csv", "raw", "json"} ELSE {"csv", "json"}
BY DEF CopyMade, Kept, Outcome

\* The same of a copy.
LEMMA OtherExporters ==
    ASSUME IInv, NEW a \in Actors, ActorStep(a), NEW b \in Exporters \ {a}
    PROVE  CopyInv(b)'
<1>0. b \in Actors \ {a} /\ CopyInv(b)
  BY DEF Actors, IInv
<1>1. CASE At(b, "idle")
  <2>1. job'[b] = job[b]
    BY <1>0 DEF ActorStep
  <2> QED BY <1>1, <2>1, <1>0 DEF CopyInv, At
<1>2. CASE ~At(b, "idle")
  <2>1. /\ job'[b] = job[b] /\ job[b].to \in Stems /\ Own(b)' = Own(b)
        /\ \A k \in Kinds : /\ Path(b, k)' = Path(b, k) /\ (Mine(b, k)' <=> Mine(b, k))
                            /\ k \in Own(b) <=> Mine(b, k)
                            /\ Mine(b, k) => disk'[Path(b, k)] = disk[Path(b, k)]
    BY <1>0, <1>2, OthersFiles
  <2>2. \A k \in Kinds : k \in Own(b) => disk'[<<job[b].to, k>>] = disk[<<job[b].to, k>>]
    BY <2>1 DEF Path
  <2>3. {"csv", "raw", "json", "tmp"} = Kinds /\ left \subseteq left'
    BY DEF Kinds, ActorStep
  <2> DEFINE p == job[b].pc
             says == job[b].says
             Building == {"open raw", "fill raw", "rehash", "open json", "fill json", "saved"}
  <2>4. CopyTask(b) /\ CopyOwn(b) /\ CopyContent(b) /\ CopyLeft(b)
    BY <1>0, <1>2 DEF CopyInv, At
  <2>5. p \in Building => Own(b) = CopyMade(p, says)
    BY <2>4 DEF CopyOwn, Undoing
  <2>a. /\ p \in {"fill csv", "open raw"} => CopyMade(p, says) = {"csv"}
        /\ p = "fill raw" => CopyMade(p, says) = {"csv", "raw"}
        /\ p \in {"rehash", "open json"} => CopyMade(p, says) = IF says.audit THEN {"csv", "raw"} ELSE {"csv"}
        /\ p \in {"fill json", "saved"} => CopyMade(p, says) = IF says.audit THEN {"csv", "raw", "json"} ELSE {"csv", "json"}
    <3> HIDE DEF p, says
    <3> QED BY CopyMadeFacts
  <2>6. p \in Building => "csv" \in Own(b)
    <3> DEFINE made == CopyMade(p, says)
    <3>1. p \in Building => "csv" \in made
      <4> HIDE DEF p, says
      <4> QED BY <2>a
    <3> QED BY <2>5, <3>1
  <2>7. p \in Building \ {"open raw", "fill raw"} /\ says.audit => "raw" \in Own(b)
    BY <2>5, <2>a
  <2>8. p = "fill json" => "json" \in Own(b)
    BY <2>5, <2>a
  <2>9. ASSUME NEW K, Copied(b, K), K \subseteq Own(b) \cup {"json"} PROVE Copied(b, K)'
    BY <2>1, <2>3, <2>9 DEF Copied, Durable
  <2>10. CopyTask(b)'
    BY <2>1, <2>4 DEF CopyTask
  <2>11. CopyOwn(b)'
    BY <2>1, <2>4 DEF CopyOwn
  <2>12. CopyContent(b)'
    <3>1. p \in {"open raw", "fill raw"} => says.audit /\ Copied(b, {"csv"})'
      BY <2>4, <2>6, <2>9 DEF CopyContent
    <3>2. p \in {"rehash", "open json", "fill json", "saved"} => Copied(b, Kept(says))'
      <4> HAVE p \in {"rehash", "open json", "fill json", "saved"}
      <4>1. Kept(says) \subseteq Own(b) \cup {"json"}
        BY <2>6, <2>7 DEF Kept, Outcome
      <4>2. Copied(b, Kept(says))
        BY <2>4 DEF CopyContent
      <4>3. Kept(says)' = Kept(says)
        BY <2>1 DEF Kept
      <4> DEFINE K == Kept(says)
      <4> HIDE DEF p, says, K
      <4>4. Copied(b, K)'
        BY <2>9, <4>1, <4>2, <4>3 DEF K
      <4> QED BY <4>4 DEF K
    <3>3. p \in {"open json", "fill json", "saved"} => HashOf(job[b].to, says.audit)' = HashOf(job[b].to, says.audit)
      BY <2>1, <2>2, <2>3, <2>6, <2>7 DEF HashOf
    <3>4. p = "fill json" => disk'[Path(b, "json")] = disk[Path(b, "json")]
      BY <2>1, <2>3, <2>8
    <3> QED BY <2>1, <2>3, <2>4, <3>1, <3>2, <3>3, <3>4 DEF CopyContent
  <2>13. CopyLeft(b)'
    BY <2>1, <2>3, <2>4 DEF CopyLeft
  <2> QED BY <1>0, <2>1, <2>10, <2>11, <2>12, <2>13 DEF CopyInv
<1> QED BY <1>1, <1>2

\* Manifests of others, and the files they vouch for, are left alone.
LEMMA OtherStems ==
    ASSUME IInv, NEW a \in Actors, ActorStep(a), TypeInv', NEW s \in Stems,
           ~(s = job[a].to /\ disk'[<<s, "json">>] # None /\ disk'[<<s, "json">>].by = job[a].id)
    PROVE  ManifestInv(s)' /\ SealInv(s)'
<1> DEFINE D(k) == disk[<<s, k>>]
           E(k) == disk'[<<s, k>>]
           i == job[a].id
<1>1. ManifestInv(s) /\ SealInv(s)
  BY DEF IInv
<1>2. {"csv", "raw", "json"} = Outcome /\ Outcome \subseteq Kinds
  BY DEF Outcome, Kinds
<1>3. ASSUME NEW k \in Kinds, E(k) # D(k)
      PROVE  s = job[a].to /\ (D(k) # None => D(k).by = i) /\ (E(k) # None => E(k).by = i)
  <2>1. <<s, k>> \in Paths
    BY DEF Paths
  <2>2. \E l \in Kinds : <<s, k>> = <<job[a].to, l>>
    BY <1>3, <2>1 DEF ActorStep, Path
  <2> QED BY <1>3, <2>1, <2>2 DEF ActorStep
<1>4. E("json") # None => E("json") = D("json")
  BY <1>2, <1>3
<1>5. E("json") # None => ~(s = job[a].to /\ E("json").by = i)
  OBVIOUS
<1>6. ManifestInv(s)'
  BY <1>1, <1>4 DEF ManifestInv, Exists
<1>7. SealInv(s)'
  <2> SUFFICES ASSUME NEW m, m = E("json"), NEW says, says = m.says, NEW audit, audit = says.audit, m # None, m.data # Torn, says.final, <<s, "json">> \notin left',
                      says.hash # None, ~says.error
               PROVE  /\ \A k \in Kept(says) : E(k) # None /\ E(k).by = m.by
                      /\ \A k \in Kept(says) \ {"json"} : E(k).synced
                      /\ HashOf(s, audit)' = says.hash
    BY DEF SealInv, Completed, Exists, Kept
  <2>1. m = D("json") /\ <<s, "json">> \notin left
    BY <1>4 DEF ActorStep
  <2>2. /\ \A k \in Kept(says) : D(k) # None /\ D(k).by = m.by
        /\ \A k \in Kept(says) \ {"json"} : D(k).synced
        /\ HashOf(s, audit) = says.hash
    BY <1>1, <2>1 DEF SealInv, Completed, Exists
  <2>3. \A k \in Kept(says) : E(k) = D(k)
    BY <1>2, <1>3, <1>5, <2>2 DEF Kept
  <2>4. "csv" \in Kept(says) /\ (audit => "raw" \in Kept(says))
    BY DEF Kept, Outcome
  <2>5. HashOf(s, audit)' = HashOf(s, audit)
    BY <2>3, <2>4 DEF HashOf
  <2> QED BY <2>2, <2>3, <2>5
<1> QED BY <1>6, <1>7

\* Numbers stay unique.
LEMMA ActorStepIds ==
    ASSUME IInv, NEW a \in Actors, ActorStep(a)
    PROVE  IdInv'
<1>1. IdInv /\ jobs' = jobs /\ jobs \in Nat /\ job[a].id \in 1..jobs /\ job[a].to \in Stems
  BY DEF IInv, IdInv, ActorStep, TypeInv
<1>2. Idle.id = 0 /\ Idle.pc = "idle"
  BY DEF Idle
<1>3. \A b \in Actors : job'[b] = job[b] \/ (b = a /\ job'[a] = Idle)
                        \/ (b = a /\ job'[a].pc # "idle" /\ job'[a].id = job[a].id /\ job'[a].to = job[a].to)
  BY DEF ActorStep
<1>4. \A b \in Actors : IF At(b, "idle")' THEN job'[b].id = 0 ELSE job'[b].id \in 1..jobs' /\ job'[b].to \in Stems
  BY <1>1, <1>2, <1>3 DEF IdInv, At
<1>5. ASSUME NEW b \in Actors, NEW c \in Actors, b # c, job'[b].id = job'[c].id PROVE At(b, "idle")'
  <2>1. CASE job'[b].id = 0
    BY <1>1, <1>4, <2>1
  <2>2. CASE job'[b].id # 0
    <3>1. job[b].id = job[c].id /\ job[b].id # 0
      BY <1>2, <1>3, <1>5, <2>2
    <3> QED BY <1>1, <1>5, <3>1 DEF IdInv, At
  <2> QED BY <2>1, <2>2
<1>6. ASSUME NEW f \in Stems \X Kinds, disk'[f] # None PROVE disk'[f].by <= jobs'
  <2>1. CASE disk'[f] = disk[f]
    BY <1>1, <1>6, <2>1 DEF IdInv
  <2>2. CASE disk'[f] # disk[f]
    <3>1. disk'[f].by = job[a].id
      BY <1>6, <2>2 DEF ActorStep, Paths
    <3> QED BY <1>1, <3>1
  <2> QED BY <2>1, <2>2
<1> QED BY <1>4, <1>5, <1>6 DEF IdInv

\* A step of one process keeps the invariant if what it knows itself stands.
LEMMA ActorStepInv ==
    ASSUME IInv, NEW a \in Actors, ActorStep(a), TypeInv', NEW t, t = job[a].to,
           a \in Recorders => RecordInv(a)', a \in Exporters => CopyInv(a)',
           disk'[<<t, "json">>] # None /\ disk'[<<t, "json">>].by = job[a].id =>
               ManifestInv(t)' /\ SealInv(t)'
    PROVE  IInv'
<1>2. \A b \in Recorders : RecordInv(b)'
  BY OtherRecorders
<1>3. \A b \in Exporters : CopyInv(b)'
  BY OtherExporters
<1>4. ASSUME NEW s \in Stems PROVE ManifestInv(s)' /\ SealInv(s)'
  <2>1. CASE s = t /\ disk'[<<s, "json">>] # None /\ disk'[<<s, "json">>].by = job[a].id
    BY <2>1
  <2>2. CASE ~(s = job[a].to /\ disk'[<<s, "json">>] # None /\ disk'[<<s, "json">>].by = job[a].id)
    BY <2>2, OtherStems
  <2> QED BY <2>1, <2>2
<1> QED BY <1>2, <1>3, <1>4, ActorStepIds DEF IInv

-----------------------------------------------------------------------------
(* What one step does to the files of its process *)

\* The process a, about the file t, goes on as j.
GoesOn(a, t, j) ==
    /\ t = job[a].to /\ t \in Stems /\ ~At(a, "idle") /\ j.pc # job[a].pc /\ j \in Jobs
    /\ j = Idle \/ (j.pc # "idle" /\ j.id = job[a].id /\ j.to = t)
    /\ Step(a, j) /\ left \subseteq left'

\* An idle job.
LEMMA IdleFacts ==
    Idle \in Jobs /\ Idle.pc = "idle" /\ Idle.id = 0
BY DEF Idle, Jobs, Pcs, CopyPcs

\* What follows for its own files.
LEMMA OwnAfter ==
    ASSUME NEW a \in Actors, NEW t, t = job[a].to, job'[a].to = t, job'[a].id = job[a].id
    PROVE  \A k \in Kinds :
             /\ k \in Own(a)' <=> disk'[<<t, k>>] # None /\ disk'[<<t, k>>].by = job[a].id
             /\ k \in Own(a) <=> disk[<<t, k>>] # None /\ disk[<<t, k>>].by = job[a].id
             /\ (Mine(a, k)' <=> k \in Own(a)') /\ (Mine(a, k) <=> k \in Own(a))
             /\ Path(a, k) = <<t, k>> /\ Path(a, k)' = <<t, k>>
BY DEF Own, Mine, Path, Exists

\* a has gone on as j.  Nothing at t has changed, or the file k to x.
Still(a, j) ==
    /\ ActorStep(a) /\ TypeInv' /\ job'[a] = j
    /\ j # Idle => Own(a)' = Own(a)
Wrote(a, t, j, k, x) ==
    /\ ActorStep(a) /\ TypeInv' /\ job'[a] = j
    /\ disk'[<<t, k>>] = x /\ \A l \in Kinds \ {k} : disk'[<<t, l>>] = disk[<<t, l>>]
    /\ j # Idle => Own(a)' = IF x = None THEN Own(a) \ {k} ELSE Own(a) \cup {k}

\* A step that touches no file.
LEMMA StillStep ==
    ASSUME IInv, NEW a \in Actors, NEW t, NEW j, GoesOn(a, t, j), UNCHANGED disk
    PROVE  Still(a, j)
<1>1. job'[a] = j /\ (\A b \in Actors \ {a} : job'[b] = job[b]) /\ UNCHANGED <<jobs, faults>>
  BY StepFacts DEF GoesOn, IInv
<1>2. job' \in [Actors -> Jobs]
  BY DEF GoesOn, Step, IInv, TypeInv
<1>3. ActorStep(a)
  BY <1>1 DEF ActorStep, GoesOn
<1>4. TypeInv'
  BY <1>1, <1>2 DEF TypeInv, IInv
<1>5. j # Idle => Own(a)' = Own(a)
  BY <1>1 DEF GoesOn, Own, Mine, Path, Exists
<1> QED BY <1>1, <1>3, <1>4, <1>5 DEF Still

\* A step that writes or removes one.
LEMMA PutStep ==
    ASSUME IInv, NEW a \in Actors, NEW t, NEW j, GoesOn(a, t, j),
           NEW k \in Kinds, NEW x \in Files \cup {None}, x # None => x.by = job[a].id,
           Put(Path(a, k), x), ~Exists(t, k) \/ Mine(a, k)
    PROVE  Wrote(a, t, j, k, x)
<1>1. job'[a] = j /\ (\A b \in Actors \ {a} : job'[b] = job[b]) /\ UNCHANGED <<jobs, faults>>
  BY StepFacts DEF GoesOn, IInv
<1>2. job' \in [Actors -> Jobs]
  BY DEF GoesOn, Step, IInv, TypeInv
<1>3. Path(a, k) = <<t, k>> /\ <<t, k>> \in Paths
  BY DEF GoesOn, Path, Paths
<1> DEFINE f == <<t, k>>
<1>4. /\ disk' \in [Paths -> Files \cup {None}] /\ disk'[f] = x
      /\ \A g \in Paths : g # f => disk'[g] = disk[g]
  <2>1. Put(f, x) /\ f \in Paths /\ TypeInv
    BY <1>3 DEF IInv
  <2> HIDE DEF f
  <2> QED BY <2>1, PutFacts
<1>5. \A l \in Kinds \ {k} : disk'[<<t, l>>] = disk[<<t, l>>]
  BY <1>4 DEF GoesOn, Paths
<1>6. disk[f] # None => disk[f].by = job[a].id
  BY DEF Mine, Exists, Path, GoesOn
<1>7. ActorStep(a)
  <2>1. \A g \in Paths : disk'[g] # disk[g] => g = f
    BY <1>4
  <2> QED BY <1>1, <1>3, <1>4, <1>6, <2>1 DEF ActorStep, GoesOn
<1>8. TypeInv'
  BY <1>1, <1>2, <1>4 DEF TypeInv, IInv, Paths
<1>9. j # Idle => Own(a)' = IF x = None THEN Own(a) \ {k} ELSE Own(a) \cup {k}
  <2> HAVE j # Idle
  <2>1. job'[a].to = t /\ job'[a].id = job[a].id /\ t = job[a].to
    BY <1>1 DEF GoesOn
  <2>2. \A l \in Kinds : /\ l \in Own(a)' <=> disk'[<<t, l>>] # None /\ disk'[<<t, l>>].by = job[a].id
                         /\ l \in Own(a) <=> disk[<<t, l>>] # None /\ disk[<<t, l>>].by = job[a].id
    BY <2>1, OwnAfter
  <2>3. Own(a) \subseteq Kinds /\ Own(a)' \subseteq Kinds
    BY DEF Own
  <2> QED BY <1>4, <1>5, <2>2, <2>3
<1> QED BY <1>1, <1>4, <1>5, <1>7, <1>8, <1>9 DEF Wrote

\* Going on to p.
LEMMA GotoFacts ==
    ASSUME IInv, NEW a \in Actors, ~At(a, "idle"), NEW p \in Pcs \cup CopyPcs, p # "idle", p # job[a].pc,
           Goto(a, p), left \subseteq left'
    PROVE  \E j \in Jobs :
             /\ GoesOn(a, job[a].to, j) /\ j # Idle
             /\ j.pc = p /\ j.id = job[a].id /\ j.to = job[a].to /\ j.error = job[a].error
             /\ j.hash = job[a].hash /\ j.says = job[a].says /\ j.created = job[a].created
<1> DEFINE j == [job[a] EXCEPT !.pc = p]
<1>1. job[a] \in Jobs /\ job[a].to \in Stems
  BY DEF IInv, TypeInv, IdInv
<1>2. /\ j \in Jobs /\ j.pc = p /\ j.id = job[a].id /\ j.to = job[a].to /\ j.error = job[a].error
      /\ j.hash = job[a].hash /\ j.says = job[a].says /\ j.created = job[a].created
  BY <1>1 DEF Jobs
<1>3. Step(a, j)
  BY DEF Goto
<1> HIDE DEF j
<1>4. GoesOn(a, job[a].to, j) /\ j # Idle
  BY <1>1, <1>2, <1>3, IdleFacts DEF GoesOn
<1> QED BY <1>2, <1>4

\* Giving up.
LEMMA AbandonFacts ==
    ASSUME IInv, NEW a \in Actors, ~At(a, "idle"), Abandon(a), left \subseteq left'
    PROVE  GoesOn(a, job[a].to, Idle)
BY IdleFacts DEF GoesOn, Abandon, IInv, IdInv, At

\* What a process writes.
LEMMA FileIn ==
    ASSUME NEW i \in Nat, NEW d \in Data, NEW m \in Says \cup {None}
    PROVE  /\ File(i, d, FALSE, m) \in Files /\ File(i, d, FALSE, m) # None
           /\ File(i, d, FALSE, m).by = i /\ File(i, d, FALSE, m).data = d
           /\ File(i, d, FALSE, m).synced = FALSE /\ File(i, d, FALSE, m).says = m
           /\ File(i, d, TRUE, m) \in Files /\ File(i, d, TRUE, m) # None
           /\ File(i, d, TRUE, m).by = i /\ File(i, d, TRUE, m).data = d
           /\ File(i, d, TRUE, m).synced = TRUE /\ File(i, d, TRUE, m).says = m
<1>1. File(i, d, FALSE, m) \in Files /\ File(i, d, TRUE, m) \in Files
  BY DEF File, Files
<1> QED BY <1>1, NoneAssumption DEF File

\* The contents.
LEMMA DataFacts ==
    ASSUME NEW i \in Nat
    PROVE  /\ {Torn, Header(i), Rows(i), Whole(i)} \subseteq Data /\ Whole(i) # Torn
BY DEF Torn, Header, Rows, Whole, Data

\* A manifest that is not final vouches for nothing.
LEMMA OpenManifest ==
    ASSUME NEW t \in Stems,
           \/ disk'[<<t, "json">>].data = Torn
           \/ disk'[<<t, "json">>].says \in Says /\ ~disk'[<<t, "json">>].says.final
    PROVE  ManifestInv(t)' /\ SealInv(t)'
BY DEF ManifestInv, SealInv, Completed

\* A step of the engine, which leaves its manifest as it was, or open.
LEMMA RecordStepInv ==
    ASSUME IInv, NEW a \in Recorders, NEW t, t = job[a].to, ActorStep(a), TypeInv', RecordInv(a)',
           \/ disk'[<<t, "json">>] = disk[<<t, "json">>]
           \/ disk'[<<t, "json">>].data = Torn
           \/ disk'[<<t, "json">>].says \in Says /\ ~disk'[<<t, "json">>].says.final
    PROVE  IInv'
<1>1. a \in Actors /\ a \notin Exporters
  BY RunFilesAssumption DEF Actors
<1>2. t \in Stems
  BY <1>1 DEF IInv, IdInv, ActorStep
<1>3. ASSUME disk'[<<t, "json">>] # None, disk'[<<t, "json">>].by = job[a].id
      PROVE  ManifestInv(t)' /\ SealInv(t)'
  <2>1. CASE disk'[<<t, "json">>] = disk[<<t, "json">>]
    <3>1. "json" \in Own(a)
      BY <1>3, <2>1 DEF Own, Mine, Exists, Path, Kinds
    <3>2. ~disk[<<t, "json">>].says.final
      BY <3>1 DEF IInv, RecordInv, ActorStep, At, Path
    <3>3. ManifestInv(t)
      BY <1>2 DEF IInv
    <3>4. disk[<<t, "json">>].data = Torn \/ disk[<<t, "json">>].says \in Says
      BY <1>3, <2>1, <3>3 DEF ManifestInv, Exists
    <3> QED BY <1>2, <2>1, <3>2, <3>4, OpenManifest
  <2>2. CASE \/ disk'[<<t, "json">>].data = Torn
             \/ disk'[<<t, "json">>].says \in Says /\ ~disk'[<<t, "json">>].says.final
    BY <1>2, <2>2, OpenManifest
  <2> QED BY <2>1, <2>2
<1> QED BY <1>1, <1>2, <1>3, ActorStepInv

\* An idle engine knows nothing.
LEMMA IdleRecorder ==
    ASSUME NEW a \in Recorders, job'[a] = Idle
    PROVE  RecordInv(a)'
BY IdleFacts DEF RecordInv, Pcs

\* The files an engine makes.
LEMMA MadeFacts ==
    ASSUME NEW p
    PROVE  /\ p = "csv" => Made(p) = {}
           /\ p = "raw" => Made(p) = {"csv"}
           /\ p = "json" => Made(p) = {"csv", "raw"}
           /\ p \in {"measure", "finish csv", "finish raw", "hash", "tmp"} => Made(p) = Outcome
           /\ p = "rename" => Made(p) = Kinds
BY DEF Made

-----------------------------------------------------------------------------
(* The engine's steps *)

\* Creating a file, or giving up: one of them, in the order of the code.
LEMMA CreateStep ==
    ASSUME IInv, NEW a \in Recorders, NEW p, NEW k \in Kinds, NEW next \in {"raw", "json"}, UNCHANGED left,
           job[a].pc = p, p # "idle", p # next, "json" \notin Made(p), k # "json", Made(next) = Made(p) \cup {k},
           NEW t, t = job[a].to,
           \/ ~Exists(t, k) /\ New(a, k, Header(job[a].id)) /\ (Goto(a, next) \/ Abandon(a))
           \/ UNCHANGED disk /\ Abandon(a)
    PROVE  ActorStep(a) /\ IInv'
<1>1. a \in Actors /\ job[a].id \in Nat /\ t \in Stems /\ ~At(a, "idle") /\ RecordInv(a)
  BY DEF Actors, IInv, TypeInv, Jobs, IdInv, At
<1>2. PICK x \in Files : x = File(job[a].id, Header(job[a].id), FALSE, None)
  <2> DEFINE h == Header(job[a].id)
  <2>1. h \in Data
    BY <1>1, DataFacts
  <2> HIDE DEF h
  <2> QED BY <1>1, <2>1 DEF File, Files, h
<1>a. x \in Files \cup {None} /\ x # None /\ x.by = job[a].id
  BY <1>2, NoneAssumption DEF File
<1>3. CASE UNCHANGED disk /\ Abandon(a)
  <2>1. GoesOn(a, t, Idle)
    BY <1>1, <1>3, AbandonFacts
  <2>2. Still(a, Idle)
    BY <1>1, <1>3, <2>1, StillStep
  <2> QED BY <1>3, <2>2, IdleRecorder, RecordStepInv DEF Still
<1>4. CASE ~Exists(t, k) /\ Put(Path(a, k), x) /\ Abandon(a)
  <2>1. GoesOn(a, t, Idle)
    BY <1>1, <1>4, AbandonFacts
  <2>2. Wrote(a, t, Idle, k, x)
    BY <1>1, <1>a, <1>4, <2>1, PutStep
  <2>3. disk'[<<t, "json">>] = disk[<<t, "json">>]
    BY <2>2 DEF Kinds, Wrote
  <2> QED BY <2>2, <2>3, IdleRecorder, RecordStepInv DEF Wrote
<1>5. CASE ~Exists(t, k) /\ Put(Path(a, k), x) /\ Goto(a, next)
  <2>1. PICK j \in Jobs : GoesOn(a, t, j) /\ j # Idle /\ j.pc = next /\ j.id = job[a].id /\ j.to = t
    BY <1>1, <1>5, GotoFacts DEF Pcs
  <2>2. Wrote(a, t, j, k, x)
    BY <1>1, <1>a, <1>5, <2>1, PutStep
  <2>3. disk'[<<t, "json">>] = disk[<<t, "json">>]
    BY <2>2 DEF Kinds, Wrote
  <2>4. Own(a)' = Made(next)
    BY <1>1, <1>a, <2>1, <2>2 DEF RecordInv, Wrote
  <2>5. RecordInv(a)'
    BY <2>1, <2>2, <2>4 DEF RecordInv, Pcs, Wrote
  <2> QED BY <2>2, <2>3, <2>5, RecordStepInv DEF Wrote
<1> QED BY <1>2, <1>3, <1>4, <1>5 DEF New

\* CsvWriter::create and RawWriter::create.
LEMMA CreateInv ==
    ASSUME IInv, NEW a \in Recorders, CreateCsv(a) \/ CreateAudit(a)
    PROVE  ActorStep(a) /\ IInv'
<1> DEFINE p1 == "csv"
           p2 == "raw"
           p3 == "json"
<1>1. Made(p1) = {} /\ Made(p2) = Made(p1) \cup {p1} /\ Made(p3) = Made(p2) \cup {p2}
  BY DEF Made
<1>2. {p1, p2} \subseteq Kinds /\ {p2, p3} \subseteq {"raw", "json"} /\ p1 # p2 /\ p2 # p3
      /\ "idle" \notin {p1, p2} /\ "json" \notin Made(p1) /\ "json" \notin Made(p2) /\ "json" \notin {p1, p2}
  BY DEF Kinds, Made
<1>3. CASE CreateCsv(a)
  <2>1. /\ UNCHANGED left /\ job[a].pc = p1
        /\ \/ ~Exists(job[a].to, p1) /\ New(a, p1, Header(job[a].id)) /\ (Goto(a, p2) \/ Abandon(a))
           \/ UNCHANGED disk /\ Abandon(a)
    BY <1>3 DEF CreateCsv, At
  <2> HIDE DEF p1, p2, p3
  <2> QED BY <1>1, <1>2, <2>1, CreateStep
<1>4. CASE CreateAudit(a)
  <2>1. /\ UNCHANGED left /\ job[a].pc = p2
        /\ \/ ~Exists(job[a].to, p2) /\ New(a, p2, Header(job[a].id)) /\ (Goto(a, p3) \/ Abandon(a))
           \/ UNCHANGED disk /\ Abandon(a)
    BY <1>4 DEF CreateAudit, At
  <2> HIDE DEF p1, p2, p3
  <2> QED BY <1>1, <1>2, <2>1, CreateStep
<1> QED BY <1>3, <1>4

\* write_json_new: nothing is measured without a manifest that says "in progress".
LEMMA CreateManifestInv ==
    ASSUME IInv, NEW a \in Recorders, CreateManifest(a)
    PROVE  ActorStep(a) /\ IInv'
<1> DEFINE json == "json"
           i == job[a].id
<1>1. PICK t \in Stems : t = job[a].to
  BY DEF IInv, IdInv, CreateManifest, At, Actors
<1>2. a \in Actors /\ i \in Nat /\ ~At(a, "idle") /\ RecordInv(a) /\ job[a].pc = json /\ json \in Kinds
  BY DEF Actors, IInv, TypeInv, Jobs, At, CreateManifest, Kinds
<1>3. Progress \in Says /\ Progress.final = FALSE
  BY DEF Progress, Says
<1>4. PICK x \in Files : x = File(i, Whole(i), TRUE, Progress)
  <2> DEFINE d == Whole(i)
  <2>1. d \in Data
    BY <1>2, DataFacts
  <2> HIDE DEF d
  <2> QED BY <1>2, <1>3, <2>1 DEF File, Files, d
<1>5. PICK y \in Files : y = File(i, Torn, FALSE, None)
  <2>1. Torn \in Data
    BY <1>2, DataFacts
  <2> QED BY <1>2, <2>1 DEF File, Files
<1>6. /\ x \in Files \cup {None} /\ x # None /\ x.by = i /\ x.says = Progress
      /\ y \in Files \cup {None} /\ y # None /\ y.by = i /\ y.data = Torn
  BY <1>4, <1>5, NoneAssumption DEF File
<1>7. /\ UNCHANGED left
      /\ \/ ~Exists(t, json) /\ Put(Path(a, json), x) /\ Goto(a, "measure")
         \/ ~Exists(t, json) /\ Put(Path(a, json), y) /\ Abandon(a)
         \/ UNCHANGED disk /\ Abandon(a)
  BY <1>1, <1>4, <1>5 DEF CreateManifest, New
<1> HIDE DEF json, i
<1>8. CASE UNCHANGED disk /\ Abandon(a)
  <2>1. GoesOn(a, t, Idle)
    BY <1>1, <1>2, <1>7, <1>8, AbandonFacts
  <2>2. Still(a, Idle)
    BY <1>2, <1>8, <2>1, StillStep
  <2> QED BY <1>1, <1>8, <2>2, IdleRecorder, RecordStepInv DEF Still
<1>9. CASE ~Exists(t, json) /\ Put(Path(a, json), y) /\ Abandon(a)
  <2>1. GoesOn(a, t, Idle)
    BY <1>1, <1>2, <1>7, <1>9, AbandonFacts
  <2>2. Wrote(a, t, Idle, json, y)
    BY <1>2, <1>6, <1>9, <2>1, PutStep DEF i
  <2> QED BY <1>1, <1>6, <2>2, IdleRecorder, RecordStepInv DEF Wrote, json
<1>10. CASE ~Exists(t, json) /\ Put(Path(a, json), x) /\ Goto(a, "measure")
  <2> DEFINE p == "measure"
  <2>1. p \in Pcs /\ p # "idle" /\ p # job[a].pc
    BY <1>2 DEF Pcs, json
  <2>2. PICK j \in Jobs : GoesOn(a, t, j) /\ j # Idle /\ j.pc = p /\ j.id = job[a].id /\ j.to = t
    <3>1. Goto(a, p)
      BY <1>10
    <3> HIDE DEF p
    <3> QED BY <1>1, <1>2, <1>7, <2>1, <3>1, GotoFacts
  <2>3. Wrote(a, t, j, json, x)
    BY <1>2, <1>6, <1>10, <2>2, PutStep DEF i
  <2>4. Own(a)' = Made(p)
    <3>1. Own(a) = {"csv", "raw"}
      BY <1>2 DEF RecordInv, At, Made, json
    <3>2. Own(a)' = Own(a) \cup {json}
      BY <1>6, <2>2, <2>3 DEF Wrote
    <3>3. Made(p) = {"csv", "raw", "json"}
      BY DEF Made, Outcome
    <3> QED BY <3>1, <3>2, <3>3 DEF json
  <2>5. Path(a, json)' = <<t, json>> /\ job'[a] = j
    BY <2>2, <2>3 DEF Path, Wrote
  <2>6. RecordInv(a)'
    BY <1>3, <1>6, <2>2, <2>3, <2>4, <2>5 DEF RecordInv, Pcs, Wrote, json
  <2> QED BY <1>1, <1>3, <1>6, <2>3, <2>6, RecordStepInv DEF Wrote, json
<1> QED BY <1>7, <1>8, <1>9, <1>10

\* Changing files of one's own in place.
Revised(a, t) ==
    /\ disk' \in [Paths -> Files \cup {None}]
    /\ \A f \in Paths : disk'[f] # disk[f] =>
          (\E k \in Own(a) : f = <<t, k>>) /\ disk'[f] \in Files /\ disk'[f].by = job[a].id

\* It leaves them one's own.
LEMMA ReviseStep ==
    ASSUME IInv, NEW a \in Actors, NEW t, NEW j, GoesOn(a, t, j), Revised(a, t)
    PROVE  Still(a, j)
<1>0. /\ disk' \in [Paths -> Files \cup {None}]
      /\ \A f \in Paths : disk'[f] # disk[f] =>
            (\E k \in Own(a) : f = <<t, k>>) /\ disk'[f] \in Files /\ disk'[f].by = job[a].id
  BY DEF Revised
<1>1. job'[a] = j /\ (\A b \in Actors \ {a} : job'[b] = job[b]) /\ UNCHANGED <<jobs, faults>>
  BY StepFacts DEF GoesOn, IInv
<1>2. job' \in [Actors -> Jobs]
  BY DEF GoesOn, Step, IInv, TypeInv
<1>3. \A k \in Own(a) : k \in Kinds /\ Path(a, k) = <<t, k>> /\ disk[<<t, k>>] # None /\ disk[<<t, k>>].by = job[a].id
  BY DEF Own, Mine, Exists, Path, GoesOn
<1>4. ActorStep(a)
  BY <1>0, <1>1, <1>3 DEF ActorStep, GoesOn
<1>5. TypeInv'
  BY <1>0, <1>1, <1>2 DEF TypeInv, IInv, Paths
<1>6. j # Idle => Own(a)' = Own(a)
  <2> HAVE j # Idle
  <2>1. job'[a].to = t /\ job'[a].id = job[a].id /\ t = job[a].to /\ t \in Stems
    BY <1>1 DEF GoesOn
  <2>2. \A l \in Kinds : /\ l \in Own(a)' <=> disk'[<<t, l>>] # None /\ disk'[<<t, l>>].by = job[a].id
                         /\ l \in Own(a) <=> disk[<<t, l>>] # None /\ disk[<<t, l>>].by = job[a].id
    BY <2>1, OwnAfter
  <2>3. Own(a) \subseteq Kinds /\ Own(a)' \subseteq Kinds
    BY DEF Own
  <2>4. ASSUME NEW l \in Kinds PROVE l \in Own(a)' <=> l \in Own(a)
    <3>1. <<t, l>> \in Paths
      BY <2>1 DEF Paths
    <3>2. CASE disk'[<<t, l>>] = disk[<<t, l>>]
      BY <2>2, <3>2
    <3>3. CASE disk'[<<t, l>>] # disk[<<t, l>>]
      <4>1. l \in Own(a) /\ disk'[<<t, l>>] \in Files /\ disk'[<<t, l>>].by = job[a].id
        BY <1>0, <3>1, <3>3
      <4> QED BY <2>2, <4>1, NoneAssumption
    <3> QED BY <3>2, <3>3
  <2> QED BY <2>3, <2>4
<1> QED BY <1>1, <1>4, <1>5, <1>6 DEF Still

\* An engine that has its files.
LEMMA RecordingFacts ==
    ASSUME IInv, NEW a \in Recorders, job[a].pc \in {"measure", "finish csv", "finish raw", "hash", "tmp"}
    PROVE  /\ a \in Actors /\ ~At(a, "idle") /\ RecordInv(a) /\ Own(a) = {"csv", "raw", "json"}
           /\ job[a].id \in Nat /\ job[a].to \in Stems /\ job[a] \in Jobs
           /\ \A k \in {"csv", "raw", "json"} :
                /\ Path(a, k) = <<job[a].to, k>> /\ <<job[a].to, k>> \in Paths
                /\ disk[<<job[a].to, k>>] \in Files /\ disk[<<job[a].to, k>>].by = job[a].id
<1>1. a \in Actors /\ ~At(a, "idle") /\ RecordInv(a)
  BY DEF Actors, IInv, At
<1>2. job[a].id \in Nat /\ job[a].to \in Stems /\ job[a] \in Jobs
  BY <1>1 DEF IInv, IdInv, TypeInv, Jobs
<1>3. Own(a) = {"csv", "raw", "json"}
  BY <1>1, MadeFacts DEF RecordInv, Outcome
<1>4. ASSUME NEW k \in {"csv", "raw", "json"}
      PROVE  /\ Path(a, k) = <<job[a].to, k>> /\ <<job[a].to, k>> \in Paths
             /\ disk[<<job[a].to, k>>] \in Files /\ disk[<<job[a].to, k>>].by = job[a].id
  <2>1. k \in Own(a) /\ k \in Kinds
    BY <1>3 DEF Kinds
  <2>2. Mine(a, k)
    BY <2>1 DEF Own
  <2>3. <<job[a].to, k>> \in Paths /\ (Exists(job[a].to, k) <=> disk[<<job[a].to, k>>] \in Files)
    BY <1>2, <2>1, FileFacts DEF IInv
  <2> QED BY <2>2, <2>3 DEF Mine, Path
<1> QED BY <1>1, <1>2, <1>3, <1>4

\* What an engine that goes on as j knows of its recordings x and y.
Known(j, x, y) ==
    /\ j.pc = "finish raw" /\ ~j.error => x.synced
    /\ j.pc = "hash" /\ ~j.error => x.synced /\ y.synced
    /\ j.pc = "tmp" /\ ~j.error /\ j.hash # None =>
         x.synced /\ y.synced /\ j.hash = [csv |-> x.data, raw |-> y.data]

\* From the first row to the temporary manifest, the recordings become x and y.
LEMMA RecordingStep ==
    ASSUME IInv, NEW a \in Recorders, NEW t, t = job[a].to, NEW j, GoesOn(a, t, j), j # Idle, UNCHANGED left,
           job[a].pc \in {"measure", "finish csv", "finish raw", "hash", "tmp"},
           j.pc \in {"finish csv", "finish raw", "hash", "tmp"},
           NEW x \in Files, NEW y \in Files, x.by = job[a].id, y.by = job[a].id,
           disk' = [disk EXCEPT ![<<t, "csv">>] = x, ![<<t, "raw">>] = y],
           Known(j, x, y)
    PROVE  ActorStep(a) /\ IInv'
<1>1. /\ a \in Actors /\ ~At(a, "idle") /\ RecordInv(a) /\ Own(a) = {"csv", "raw", "json"}
      /\ job[a].id \in Nat /\ job[a].to \in Stems
      /\ \A k \in {"csv", "raw", "json"} :
           /\ Path(a, k) = <<job[a].to, k>> /\ <<job[a].to, k>> \in Paths
           /\ disk[<<job[a].to, k>>] \in Files /\ disk[<<job[a].to, k>>].by = job[a].id
  BY RecordingFacts
<1>2. PICK f \in Paths, g \in Paths, h \in Paths : f = <<t, "csv">> /\ g = <<t, "raw">> /\ h = <<t, "json">>
  BY <1>1
<1>3. f # g /\ f # h /\ g # h
  BY <1>2
<1>4. disk \in [Paths -> Files \cup {None}]
  BY DEF IInv, TypeInv, Paths
<1>5. /\ disk' \in [Paths -> Files \cup {None}] /\ disk'[f] = x /\ disk'[g] = y /\ disk'[h] = disk[h]
      /\ \A e \in Paths : e # f /\ e # g => disk'[e] = disk[e]
  <2>1. disk' = [disk EXCEPT ![f] = x, ![g] = y]
    BY <1>2
  <2> QED BY <1>3, <1>4, <2>1
<1>6. Still(a, j)
  <2>1. \A e \in Paths : disk'[e] # disk[e] =>
          (\E k \in Own(a) : e = <<t, k>>) /\ disk'[e] \in Files /\ disk'[e].by = job[a].id
    <3>1. "csv" \in Own(a) /\ "raw" \in Own(a)
      BY <1>1
    <3>2. (\E k \in Own(a) : f = <<t, k>>) /\ (\E k \in Own(a) : g = <<t, k>>)
      BY <1>2, <3>1
    <3> QED BY <1>5, <3>2
  <2>2. Revised(a, t)
    BY <1>5, <2>1 DEF Revised
  <2> QED BY <1>1, <2>2, ReviseStep
<1>7. job'[a] = j /\ ActorStep(a) /\ TypeInv' /\ j.to = t /\ j.id = job[a].id
  BY <1>6 DEF Still, GoesOn
<1>8. Own(a)' = Made(j.pc)
  BY <1>1, <1>6, MadeFacts DEF Still, Outcome
<1>9. Path(a, "csv")' = f /\ Path(a, "raw")' = g /\ Path(a, "json")' = h
  BY <1>2, <1>7 DEF Path
<1>10. ~disk'[h].says.final
  <2>1. ~disk[h].says.final
    BY <1>1, <1>2 DEF RecordInv, At, Path
  <2> QED BY <1>5, <2>1
<1>11. j.pc = "tmp" => HashOf(t, TRUE)' = [csv |-> x.data, raw |-> y.data]
  BY <1>2, <1>5 DEF HashOf
<1>12. RecordInv(a)'
  BY <1>5, <1>7, <1>8, <1>9, <1>10, <1>11 DEF RecordInv, Pcs, Durable, Known
<1> QED BY <1>2, <1>5, <1>7, <1>12, RecordStepInv

\* The rows, CsvWriter::finish, RawWriter::finish and recording_hashes.
LEMMA RecordingInv ==
    ASSUME IInv, NEW a \in Recorders, Measure(a) \/ FinishCsv(a) \/ FinishAudit(a) \/ Hashes(a)
    PROVE  ActorStep(a) /\ IInv'
<1>1. job[a].pc \in {"measure", "finish csv", "finish raw", "hash"} /\ UNCHANGED left
  BY DEF Measure, FinishCsv, FinishAudit, Hashes, At
<1>2. /\ a \in Actors /\ ~At(a, "idle") /\ RecordInv(a) /\ Own(a) = {"csv", "raw", "json"}
      /\ job[a].id \in Nat /\ job[a].to \in Stems /\ job[a] \in Jobs
      /\ \A k \in {"csv", "raw", "json"} :
           /\ Path(a, k) = <<job[a].to, k>> /\ <<job[a].to, k>> \in Paths
           /\ disk[<<job[a].to, k>>] \in Files /\ disk[<<job[a].to, k>>].by = job[a].id
  BY <1>1, RecordingFacts
<1>3. PICK t \in Stems, f \in Paths, g \in Paths :
        t = job[a].to /\ f = <<t, "csv">> /\ g = <<t, "raw">> /\ Path(a, "csv") = f /\ Path(a, "raw") = g
  BY <1>2
<1>4. PICK x \in Files, y \in Files : x = disk[f] /\ y = disk[g] /\ x.by = job[a].id /\ y.by = job[a].id
  BY <1>2, <1>3
<1>5. f # g /\ disk \in [Paths -> Files \cup {None}]
  BY <1>3 DEF IInv, TypeInv, Paths
<1> DEFINE i == job[a].id
<1>6. Whole(i) \in Data /\ Rows(i) \in Data
  BY <1>2, DataFacts
<1>7. CASE Measure(a)
  <2>1. PICK u \in Files, v \in Files : u = [x EXCEPT !.data = Whole(i)] /\ v = [y EXCEPT !.data = Rows(i)]
    BY <1>6 DEF Files
  <2>2. u.by = i /\ v.by = i
    BY <1>4, <2>1 DEF Files
  <2>3. disk' = [disk EXCEPT ![f] = u, ![g] = v]
    <3>1. disk' = [disk EXCEPT ![f].data = Whole(i), ![g].data = Rows(i)]
      BY <1>3, <1>7 DEF Measure
    <3> HIDE DEF i
    <3> QED BY <1>4, <1>5, <2>1, <3>1
  <2> DEFINE p == "finish csv"
  <2>4. PICK j \in Jobs : GoesOn(a, t, j) /\ j # Idle /\ j.pc = p
    <3>1. Goto(a, p) /\ p \in Pcs \cup CopyPcs /\ p # "idle" /\ p # job[a].pc
      BY <1>7 DEF Measure, Pcs, At
    <3> HIDE DEF p
    <3> QED BY <1>1, <1>2, <1>3, <3>1, GotoFacts
  <2>5. j.pc \in {"finish csv", "finish raw", "hash", "tmp"} /\ Known(j, u, v)
    BY <2>4 DEF Known
  <2> HIDE DEF p, i
  <2> QED BY <1>1, <1>3, <2>2, <2>3, <2>4, <2>5, RecordingStep DEF i
<1>8. CASE FinishCsv(a)
  <2> DEFINE p == "finish raw"
             J == [job[a] EXCEPT !.pc = p, !.error = TRUE]
  <2>1. CASE Goto(a, p) /\ disk' = [disk EXCEPT ![Path(a, "csv")].synced = TRUE]
    <3> DEFINE w == [x EXCEPT !.synced = TRUE]
    <3>a. w \in Files /\ w.by = i /\ w.synced
      BY <1>4 DEF Files
    <3>1. PICK u \in Files : u = w /\ u.by = i /\ u.synced
      <4> HIDE DEF w
      <4> QED BY <3>a
    <3>2. disk' = [disk EXCEPT ![f] = u, ![g] = y]
      BY <1>3, <1>4, <1>5, <2>1, <3>1
    <3>3. PICK j \in Jobs : GoesOn(a, t, j) /\ j # Idle /\ j.pc = p
      <4>1. p \in Pcs \cup CopyPcs /\ p # "idle" /\ p # job[a].pc
        BY <1>8 DEF FinishCsv, Pcs, At
      <4> HIDE DEF p
      <4> QED BY <1>1, <1>2, <1>3, <2>1, <4>1, GotoFacts
    <3>4. j.pc \in {"finish csv", "finish raw", "hash", "tmp"} /\ Known(j, u, y)
      BY <3>1, <3>3 DEF Known
    <3> HIDE DEF p, i, J
    <3> QED BY <1>1, <1>3, <1>4, <3>1, <3>2, <3>3, <3>4, RecordingStep DEF i
  <2>2. CASE Step(a, J) /\ UNCHANGED disk
    <3>a. J \in Jobs /\ J.pc = p /\ J.id = i /\ J.to = t /\ J.error
      BY <1>2, <1>3 DEF Jobs, Pcs
    <3>1. PICK j \in Jobs : j = J /\ j.pc = p /\ j.id = i /\ j.to = t /\ j.error
      <4> HIDE DEF J
      <4> QED BY <3>a
    <3>2. GoesOn(a, t, j) /\ j # Idle
      <4>1. p # "idle" /\ p # job[a].pc
        BY <1>8 DEF FinishCsv, At
      <4> HIDE DEF J, p
      <4> QED BY <1>1, <1>2, <1>3, <2>2, <3>1, <4>1, IdleFacts DEF GoesOn
    <3>3. disk' = [disk EXCEPT ![f] = x, ![g] = y]
      BY <1>4, <1>5, <2>2
    <3>4. j.pc \in {"finish csv", "finish raw", "hash", "tmp"} /\ Known(j, x, y)
      BY <3>1 DEF Known
    <3> HIDE DEF p, i, J
    <3> QED BY <1>1, <1>3, <1>4, <3>1, <3>2, <3>3, <3>4, RecordingStep DEF i
  <2> QED BY <1>8, <2>1, <2>2 DEF FinishCsv
<1>9. CASE FinishAudit(a)
  <2>1. PICK data \in {Rows(i), Whole(i)}, synced \in BOOLEAN :
          /\ disk' = [disk EXCEPT ![Path(a, "raw")].data = data, ![Path(a, "raw")].synced = synced]
          /\ Step(a, [job[a] EXCEPT !.pc = "hash", !.error = @ \/ ~synced])
    BY <1>9 DEF FinishAudit
  <2> DEFINE p == "hash"
             e == job[a].error \/ ~synced
             J == [job[a] EXCEPT !.pc = p, !.error = e]
  <2>a. e \in BOOLEAN
    BY <1>2 DEF Jobs
  <2>b. J \in Jobs /\ J.pc = p /\ J.id = i /\ J.to = t /\ J.error = e
    <3> HIDE DEF e
    <3> QED BY <1>2, <1>3, <2>a DEF Jobs, Pcs
  <2>2. PICK j \in Jobs : j = J /\ j.pc = p /\ j.id = i /\ j.to = t /\ j.error = e
    <3> HIDE DEF J, e
    <3> QED BY <2>b
  <2>3. GoesOn(a, t, j) /\ j # Idle
    <3>1. p # "idle" /\ p # job[a].pc /\ Step(a, J)
      BY <1>9, <2>1 DEF FinishAudit, At
    <3> HIDE DEF J, p, e
    <3> QED BY <1>1, <1>2, <1>3, <2>2, <3>1, IdleFacts DEF GoesOn
  <2> DEFINE w == [y EXCEPT !.data = data, !.synced = synced]
  <2>4. PICK v \in Files : v = w /\ v.by = i /\ v.synced = synced
    <3>1. data \in Data
      BY <1>6
    <3>2. w \in Files /\ w.by = i /\ w.synced = synced
      BY <1>4, <3>1 DEF Files
    <3> HIDE DEF w, i
    <3> QED BY <3>2
  <2>5. disk' = [disk EXCEPT ![f] = x, ![g] = v]
    <3>1. disk' = [disk EXCEPT ![g].data = data, ![g].synced = synced]
      BY <1>3, <2>1
    <3> HIDE DEF i
    <3> QED BY <1>4, <1>5, <2>4, <3>1
  <2>6. ~e => x.synced
    <3>1. job[a].pc = "finish raw"
      BY <1>9 DEF FinishAudit, At
    <3> QED BY <1>2, <1>3, <1>4, <3>1 DEF RecordInv, Durable
  <2>7. j.pc \in {"finish csv", "finish raw", "hash", "tmp"} /\ Known(j, x, v)
    BY <2>2, <2>4, <2>6 DEF Known
  <2> HIDE DEF p, i, J, e
  <2> QED BY <1>1, <1>3, <1>4, <2>2, <2>3, <2>4, <2>5, <2>7, RecordingStep DEF i
<1>10. CASE Hashes(a)
  <2> DEFINE p == "tmp"
             H == HashOf(job[a].to, TRUE)
             J == [job[a] EXCEPT !.pc = p, !.hash = H]
             K == [job[a] EXCEPT !.pc = p, !.error = TRUE]
  <2>1. H = [csv |-> x.data, raw |-> y.data]
    BY <1>3, <1>4 DEF HashOf
  <2>2. H \in Hash
    <3>1. x.data \in Data /\ y.data \in Data
      BY <1>4 DEF Files
    <3> HIDE DEF H
    <3> QED BY <2>1, <3>1 DEF Hash
  <2>3. disk' = [disk EXCEPT ![f] = x, ![g] = y]
    BY <1>4, <1>5, <1>10 DEF Hashes
  <2>4. PICK j \in Jobs : /\ Step(a, j) /\ j.pc = p /\ j.id = i /\ j.to = t
                          /\ ~j.error => ~job[a].error /\ j.hash = H
    <3>1. CASE Step(a, J)
      <4> HIDE DEF H
      <4>1. /\ J \in Jobs /\ J.pc = p /\ J.id = i /\ J.to = t
            /\ ~J.error => ~job[a].error /\ J.hash = H
        BY <1>2, <1>3, <2>2 DEF Jobs, Pcs
      <4> HIDE DEF J
      <4> QED BY <3>1, <4>1
    <3>2. CASE Step(a, K)
      <4> HIDE DEF H
      <4>1. K \in Jobs /\ K.pc = p /\ K.id = i /\ K.to = t /\ K.error
        BY <1>2, <1>3, <2>2 DEF Jobs, Pcs
      <4> HIDE DEF K
      <4> QED BY <3>2, <4>1
    <3> QED BY <1>10, <3>1, <3>2 DEF Hashes
  <2>5. GoesOn(a, t, j) /\ j # Idle
    <3>1. p # "idle" /\ p # job[a].pc
      BY <1>10 DEF Hashes, At
    <3> HIDE DEF J, K, H, p
    <3> QED BY <1>1, <1>2, <1>3, <2>4, <3>1, IdleFacts DEF GoesOn
  <2>6. ~job[a].error => x.synced /\ y.synced
    <3>1. job[a].pc = "hash"
      BY <1>10 DEF Hashes, At
    <3> QED BY <1>2, <1>3, <1>4, <3>1 DEF RecordInv, Durable
  <2>7. j.pc \in {"finish csv", "finish raw", "hash", "tmp"} /\ Known(j, x, y)
    BY <2>1, <2>4, <2>6 DEF Known
  <2> HIDE DEF p, i, J, K, H
  <2> QED BY <1>1, <1>3, <1>4, <2>3, <2>5, <2>7, RecordingStep DEF i
<1> QED BY <1>7, <1>8, <1>9, <1>10

\* replace_json, the temporary file: it says what the engine knows.
LEMMA WriteTemporaryInv ==
    ASSUME IInv, NEW a \in Recorders, WriteTemporary(a)
    PROVE  ActorStep(a) /\ IInv'
<1> DEFINE tmp == "tmp"
           i == job[a].id
           m == Final(TRUE, TRUE, job[a].hash, job[a].error)
<1>1. job[a].pc = tmp /\ UNCHANGED left
  BY DEF WriteTemporary, At
<1>2. /\ a \in Actors /\ ~At(a, "idle") /\ RecordInv(a) /\ Own(a) = {"csv", "raw", "json"}
      /\ i \in Nat /\ job[a].to \in Stems /\ job[a] \in Jobs
      /\ \A k \in {"csv", "raw", "json"} :
           /\ Path(a, k) = <<job[a].to, k>> /\ <<job[a].to, k>> \in Paths
           /\ disk[<<job[a].to, k>>] \in Files /\ disk[<<job[a].to, k>>].by = i
  BY <1>1, RecordingFacts
<1>3. PICK t \in Stems : t = job[a].to
  BY <1>2
<1>4. m \in Says
  <2>1. job[a].hash \in Hash \cup {None} /\ job[a].error \in BOOLEAN
    BY <1>2 DEF Jobs
  <2> QED BY <2>1 DEF Final, Says
<1>a. Torn \in Data /\ Whole(i) \in Data
  <2>1. i \in Nat
    BY <1>2
  <2> HIDE DEF i
  <2> QED BY <2>1, DataFacts
<1>5. PICK x \in Files : x = File(i, Whole(i), TRUE, m)
  <2> DEFINE d == Whole(i)
  <2>1. d \in Data
    BY <1>a
  <2> HIDE DEF d, m
  <2> QED BY <1>2, <1>4, <2>1 DEF File, Files, d
<1>6. PICK y \in Files : y = File(i, Torn, FALSE, None)
  BY <1>2, <1>a DEF File, Files
<1>7. /\ x \in Files \cup {None} /\ x # None /\ x.by = i /\ x.says = m
      /\ y \in Files \cup {None} /\ y # None /\ y.by = i
      /\ tmp \in Kinds
  BY <1>5, <1>6, NoneAssumption DEF File, Kinds
<1>8. \/ ~Exists(t, tmp) /\ Put(Path(a, tmp), x) /\ Goto(a, "rename")
      \/ ~Exists(t, tmp) /\ Put(Path(a, tmp), y) /\ Abandon(a)
      \/ UNCHANGED disk /\ Abandon(a)
  BY <1>3, <1>5, <1>6 DEF WriteTemporary, New
<1> HIDE DEF tmp, i
<1>9. CASE UNCHANGED disk /\ Abandon(a)
  <2>1. GoesOn(a, t, Idle)
    BY <1>1, <1>2, <1>3, <1>9, AbandonFacts
  <2>2. Still(a, Idle)
    BY <1>2, <1>9, <2>1, StillStep
  <2> QED BY <1>3, <1>9, <2>2, IdleRecorder, RecordStepInv DEF Still
<1>10. CASE ~Exists(t, tmp) /\ Put(Path(a, tmp), y) /\ Abandon(a)
  <2>1. GoesOn(a, t, Idle)
    BY <1>1, <1>2, <1>3, <1>10, AbandonFacts
  <2>2. Wrote(a, t, Idle, tmp, y)
    BY <1>2, <1>7, <1>10, <2>1, PutStep DEF i
  <2>3. disk'[<<t, "json">>] = disk[<<t, "json">>]
    BY <2>2 DEF Kinds, Wrote, tmp
  <2> QED BY <1>3, <2>2, <2>3, IdleRecorder, RecordStepInv DEF Wrote
<1>11. CASE ~Exists(t, tmp) /\ Put(Path(a, tmp), x) /\ Goto(a, "rename")
  <2> DEFINE p == "rename"
  <2>1. p \in Pcs /\ p # "idle" /\ p # job[a].pc
    BY <1>1 DEF Pcs, tmp
  <2>2. PICK j \in Jobs : /\ GoesOn(a, t, j) /\ j # Idle /\ j.pc = p /\ j.id = job[a].id /\ j.to = t
                          /\ j.error = job[a].error /\ j.hash = job[a].hash
    <3>1. Goto(a, p)
      BY <1>11
    <3> HIDE DEF p
    <3> QED BY <1>1, <1>2, <1>3, <2>1, <3>1, GotoFacts
  <2>3. Wrote(a, t, j, tmp, x)
    BY <1>2, <1>7, <1>11, <2>2, PutStep DEF i
  <2>4. job'[a] = j /\ disk'[<<t, tmp>>] = x /\ \A k \in {"csv", "raw", "json"} : disk'[<<t, k>>] = disk[<<t, k>>]
    BY <2>3 DEF Wrote, tmp, Kinds
  <2>5. Own(a)' = Kinds
    <3>1. Own(a)' = {"csv", "raw", "json"} \cup {tmp}
      BY <1>2, <1>7, <2>2, <2>3 DEF Wrote
    <3> QED BY <3>1 DEF Kinds, tmp
  <2>6. \A k \in Kinds : Path(a, k)' = <<t, k>>
    BY <2>2, <2>4 DEF Path
  <2>7. RecordInv(a)'
    <3>1. ~disk[<<t, "json">>].says.final
      BY <1>2, <1>3 DEF RecordInv, At, Path
    <3>2. ~job[a].error /\ job[a].hash # None =>
            /\ disk[<<t, "csv">>].synced /\ disk[<<t, "raw">>].synced /\ job[a].hash = HashOf(t, TRUE)
      BY <1>1, <1>2, <1>3 DEF RecordInv, Durable, Path, tmp
    <3>3. HashOf(t, TRUE)' = HashOf(t, TRUE)
      BY <2>4 DEF HashOf
    <3>4. Made(p) = Kinds
      BY DEF Made
    <3>5. disk'[<<t, "tmp">>].says = Final(TRUE, TRUE, j.hash, j.error)
      BY <1>7, <2>2, <2>4 DEF tmp
    <3>6. {"csv", "raw", "json", "tmp"} = Kinds
      BY DEF Kinds
    <3> HIDE DEF m
    <3> QED BY <2>2, <2>4, <2>5, <2>6, <3>1, <3>2, <3>3, <3>4, <3>5, <3>6 DEF RecordInv, Pcs, Durable
  <2>8. disk'[<<t, "json">>] = disk[<<t, "json">>]
    BY <2>4
  <2> QED BY <1>3, <2>3, <2>7, <2>8, RecordStepInv DEF Wrote
<1> QED BY <1>8, <1>9, <1>10, <1>11

\* replace_json, the rename: the manifest that replaces the open one vouches for
\* recordings that are whole, hashed and durable.
LEMMA RenameInv ==
    ASSUME IInv, NEW a \in Recorders, Rename(a)
    PROVE  ActorStep(a) /\ IInv'
<1>1. a \in Actors /\ a \notin Exporters /\ job[a].pc = "rename" /\ ~At(a, "idle") /\ RecordInv(a) /\ UNCHANGED left /\ Abandon(a)
  BY RunFilesAssumption DEF Actors, IInv, Rename, At
<1>2. PICK t \in Stems : t = job[a].to
  BY <1>1 DEF IInv, IdInv
<1>3. GoesOn(a, t, Idle)
  BY <1>1, <1>2, AbandonFacts
<1>4. CASE UNCHANGED disk
  <2>1. Still(a, Idle)
    BY <1>1, <1>3, <1>4, StillStep
  <2> QED BY <1>2, <1>4, <2>1, IdleRecorder, RecordStepInv DEF Still
<1>5. CASE disk' = [disk EXCEPT ![Path(a, "json")] = disk[Path(a, "tmp")], ![Path(a, "tmp")] = None]
  <2>1. PICK f \in Paths, g \in Paths, h \in Paths, e \in Paths :
          f = <<t, "csv">> /\ g = <<t, "raw">> /\ h = <<t, "json">> /\ e = <<t, "tmp">>
    BY DEF Paths, Kinds
  <2>2. f # g /\ f # h /\ f # e /\ g # h /\ g # e /\ h # e
    BY <2>1
  <2>3. disk \in [Paths -> Files \cup {None}]
    BY DEF IInv, TypeInv, Paths
  <2>4. disk' = [disk EXCEPT ![h] = disk[e], ![e] = None]
    BY <1>2, <1>5, <2>1 DEF Path
  <2>5. /\ disk' \in [Paths -> Files \cup {None}] /\ disk'[h] = disk[e] /\ disk'[e] = None
        /\ \A q \in Paths : q # h /\ q # e => disk'[q] = disk[q]
    BY <2>2, <2>3, <2>4
  <2>6. \A q \in {f, g, h, e} : disk[q] # None /\ disk[q].by = job[a].id
    <3>1. Own(a) = Kinds
      BY <1>1 DEF RecordInv, Made
    <3>2. \A k \in Kinds : disk[<<t, k>>] # None /\ disk[<<t, k>>].by = job[a].id
      BY <1>2, <3>1 DEF Own, Mine, Exists, Path
    <3> QED BY <2>1, <3>2 DEF Kinds
  <2>7. job'[a] = Idle /\ (\A b \in Actors \ {a} : job'[b] = job[b]) /\ UNCHANGED <<jobs, faults>>
    BY <1>1, StepFacts DEF Abandon, IInv
  <2>8. TypeInv'
    <3>1. job' \in [Actors -> Jobs]
      BY <1>1, IdleFacts DEF Abandon, Step, IInv, TypeInv
    <3> QED BY <2>5, <2>7, <3>1 DEF IInv, TypeInv, Paths
  <2>9. ActorStep(a)
    <3>1. ASSUME NEW q \in Paths, disk'[q] # disk[q]
          PROVE  /\ \E k \in Kinds : q = Path(a, k)
                 /\ disk[q] # None => disk[q].by = job[a].id
                 /\ disk'[q] # None => disk'[q].by = job[a].id
      <4>1. q = h \/ q = e
        BY <2>5, <3>1
      <4>2. h = Path(a, "json") /\ e = Path(a, "tmp") /\ "json" \in Kinds /\ "tmp" \in Kinds
        BY <1>2, <2>1 DEF Path, Kinds
      <4> QED BY <2>5, <2>6, <4>1, <4>2
    <3>2. job'[a] # job[a]
      BY <1>1, <2>7, IdleFacts
    <3> QED BY <1>1, <2>7, <3>1, <3>2 DEF ActorStep
  <2>10. ManifestInv(t)' /\ SealInv(t)'
    <3> DEFINE m == Final(TRUE, TRUE, job[a].hash, job[a].error)
    <3>1. disk'[h].says = m /\ m \in Says
      <4>1. job[a] \in Jobs
        BY <1>1 DEF IInv, TypeInv
      <4>2. m \in Says
        <5>1. job[a].hash \in Hash \cup {None} /\ job[a].error \in BOOLEAN
          BY <4>1 DEF Jobs
        <5> QED BY <5>1 DEF Final, Says
      <4>3. disk[e].says = m
        BY <1>1, <1>2, <2>1 DEF RecordInv, Path
      <4> QED BY <2>5, <4>2, <4>3
    <3>2. ManifestInv(t)'
      BY <2>1, <3>1 DEF ManifestInv
    <3>3. SealInv(t)'
      <4> SUFFICES ASSUME job[a].hash # None, ~job[a].error
                   PROVE  /\ \A k \in Outcome : disk'[<<t, k>>] # None /\ disk'[<<t, k>>].by = disk'[h].by
                          /\ disk'[f].synced /\ disk'[g].synced
                          /\ HashOf(t, TRUE)' = job[a].hash
        <5>1. m.audit = TRUE /\ m.hash = job[a].hash /\ m.error = job[a].error
          BY DEF Final
        <5>2. Kept(m) = Outcome
          BY <5>1 DEF Kept
        <5> HIDE DEF m
        <5> QED BY <2>1, <3>1, <5>1, <5>2 DEF SealInv, Kept, Exists, HashOf, Outcome
      <4>1. disk[f].synced /\ disk[g].synced /\ job[a].hash = HashOf(t, TRUE)
        BY <1>1, <1>2, <2>1 DEF RecordInv, Durable, Path
      <4>2. disk'[f] = disk[f] /\ disk'[g] = disk[g]
        BY <2>2, <2>5
      <4>3. HashOf(t, TRUE)' = HashOf(t, TRUE)
        BY <2>1, <4>2 DEF HashOf
      <4>4. \A q \in {f, g, h} : disk'[q] # None /\ disk'[q].by = disk'[h].by
        BY <2>5, <2>6, <4>2
      <4> QED BY <2>1, <4>1, <4>2, <4>3, <4>4 DEF Outcome
    <3> QED BY <3>2, <3>3
  <2> QED BY <1>1, <1>2, <2>7, <2>8, <2>9, <2>10, IdleRecorder, ActorStepInv
<1> QED BY <1>4, <1>5 DEF Rename

-----------------------------------------------------------------------------
(* The steps of a copy *)

\* A copy that is under way.
LEMMA CopyFacts ==
    ASSUME IInv, NEW a \in Exporters, ~At(a, "idle")
    PROVE  /\ a \in Actors /\ a \notin Recorders /\ job[a] \in Jobs /\ job[a].id \in Nat /\ job[a].to \in Stems
           /\ job[a].pc \in CopyPcs /\ CopyTask(a) /\ CopyOwn(a) /\ CopyContent(a) /\ CopyLeft(a)
           /\ job[a].says \in Says /\ job[a].says.audit \in BOOLEAN
           /\ job[a].hash \in Hash /\ job[a].hash.csv \in Data
           /\ job[a].says.audit => job[a].hash.raw \in Data
<1>1. a \in Actors /\ a \notin Recorders
  BY RunFilesAssumption DEF Actors
<1>2. job[a] \in Jobs /\ job[a].id \in Nat /\ job[a].to \in Stems
  BY <1>1 DEF IInv, IdInv, TypeInv, Jobs
<1>3. job[a].pc \in CopyPcs /\ CopyTask(a) /\ CopyOwn(a) /\ CopyContent(a) /\ CopyLeft(a)
  BY DEF IInv, CopyInv, At
<1>4. /\ job[a].says \in Says /\ job[a].says.audit \in BOOLEAN
      /\ job[a].hash \in Hash /\ job[a].hash.csv \in Data
      /\ job[a].says.audit => job[a].hash.raw \in Data
  BY <1>3 DEF CopyTask, Says, Hash
<1> QED BY <1>1, <1>2, <1>3, <1>4

\* A seal stands as long as its files do, and one that is reported may break.
LEMMA SealStands ==
    ASSUME IInv, NEW t \in Stems, left \subseteq left', disk'[<<t, "json">>] = disk[<<t, "json">>],
           \/ <<t, "json">> \in left
           \/ disk'[<<t, "csv">>] = disk[<<t, "csv">>] /\ disk'[<<t, "raw">>] = disk[<<t, "raw">>]
    PROVE  ManifestInv(t)' /\ SealInv(t)'
<1>1. ManifestInv(t) /\ SealInv(t)
  BY DEF IInv
<1>2. ManifestInv(t)'
  BY <1>1 DEF ManifestInv, Exists
<1>3. CASE <<t, "json">> \in left
  BY <1>2, <1>3 DEF SealInv
<1>4. CASE disk'[<<t, "csv">>] = disk[<<t, "csv">>] /\ disk'[<<t, "raw">>] = disk[<<t, "raw">>]
  <2>1. \A k \in Outcome : disk'[<<t, k>>] = disk[<<t, k>>]
    BY <1>4 DEF Outcome
  <2>2. \A m : Kept(m) \subseteq Outcome
    BY DEF Kept
  <2>3. SealInv(t)'
    BY <1>1, <1>4, <2>1, <2>2 DEF SealInv, Completed, Exists, HashOf, Kept
  <2> QED BY <1>2, <2>3
<1> QED BY <1>3, <1>4

\* A step of a copy, and its manifest.
LEMMA CopyStepInv ==
    ASSUME IInv, NEW a \in Exporters, NEW t, t = job[a].to, ActorStep(a), TypeInv', CopyInv(a)',
           \/ disk'[<<t, "json">>] = disk[<<t, "json">>] /\ "json" \notin Own(a)
           \/ disk'[<<t, "json">>] = None
           \/ disk'[<<t, "json">>].data = Torn
           \/ ManifestInv(t)' /\ SealInv(t)'
    PROVE  ActorStep(a) /\ IInv'
<1>1. a \in Actors /\ a \notin Recorders
  BY RunFilesAssumption DEF Actors
<1>2. t \in Stems
  BY <1>1 DEF IInv, IdInv, ActorStep
<1>3. ASSUME disk'[<<t, "json">>] # None, disk'[<<t, "json">>].by = job[a].id
      PROVE  ManifestInv(t)' /\ SealInv(t)'
  <2>1. ~(disk'[<<t, "json">>] = disk[<<t, "json">>] /\ "json" \notin Own(a))
    BY <1>3 DEF Own, Mine, Exists, Path, Kinds
  <2>2. CASE disk'[<<t, "json">>].data = Torn
    BY <1>2, <2>2, OpenManifest
  <2> QED BY <1>3, <2>1, <2>2
<1> QED BY <1>1, <1>2, <1>3, ActorStepInv

\* An error: everything made so far is to be removed.
LEMMA UndoBegins ==
    ASSUME IInv, NEW a \in Exporters, NEW t, NEW j, GoesOn(a, t, j), j.pc = "undo json",
           j.created = job[a].created, j.says = job[a].says, j.hash = job[a].hash,
           job[a].pc \notin Undoing, job'[a] = j, Own(a)' = Own(a)
    PROVE  CopyInv(a)'
<1>1. CopyTask(a) /\ CopyOwn(a)
  BY CopyFacts DEF GoesOn
<1>2. CopyTask(a)'
  BY <1>1 DEF CopyTask
<1>3. CopyOwn(a)'
  BY <1>1 DEF CopyOwn, Undoing
<1> QED BY <1>2, <1>3 DEF CopyInv, CopyContent, CopyLeft, CopyPcs

\* An error that leaves the files as they are.
LEMMA GiveUpInv ==
    ASSUME IInv, NEW a \in Exporters, ~At(a, "idle"), job[a].pc \notin Undoing,
           NEW undo, undo = "undo json", Goto(a, undo), UNCHANGED <<disk, left>>
    PROVE  ActorStep(a) /\ IInv'
<1>1. a \in Actors
  BY CopyFacts
<1>2. PICK t \in Stems : t = job[a].to
  BY CopyFacts
<1>3. undo \in Pcs \cup CopyPcs /\ undo # "idle" /\ undo # job[a].pc
  BY DEF CopyPcs, Undoing
<1>4. PICK j \in Jobs : /\ GoesOn(a, t, j) /\ j # Idle /\ j.pc = undo /\ j.created = job[a].created
                        /\ j.says = job[a].says /\ j.hash = job[a].hash
  BY <1>1, <1>2, <1>3, GotoFacts
<1>5. Still(a, j)
  BY <1>1, <1>4, StillStep
<1>6. CopyInv(a)'
  <2>1. job'[a] = j /\ Own(a)' = Own(a)
    BY <1>4, <1>5 DEF Still
  <2> QED BY <1>4, <2>1, UndoBegins
<1>7. ManifestInv(t)' /\ SealInv(t)'
  BY SealStands
<1> QED BY <1>2, <1>5, <1>6, <1>7, CopyStepInv DEF Still

\* create_new: the file is there, and empty, or an error begins the cleanup.
LEMMA OpenInv ==
    ASSUME IInv, NEW a \in Exporters, NEW p, NEW k, NEW next, Open(a, p, k, next),
           \/ p = "open csv" /\ k = "csv" /\ next = "fill csv"
           \/ p = "open raw" /\ k = "raw" /\ next = "fill raw"
           \/ p = "open json" /\ k = "json" /\ next = "fill json"
    PROVE  ActorStep(a) /\ IInv'
<1> DEFINE i == job[a].id
           undo == "undo json"
           W == /\ ~Exists(job[a].to, k) /\ New(a, k, Torn)
                /\ Step(a, [job[a] EXCEPT !.pc = next, !.created = @ \cup {k}])
<1>1. /\ job[a].pc = p /\ UNCHANGED left /\ k \in Kinds /\ k \in Outcome
      /\ p \in CopyPcs /\ next \in CopyPcs /\ p # next /\ ~At(a, "idle") /\ next # "idle" /\ p # undo
      /\ p \notin Undoing /\ next \notin Undoing
      /\ W \/ (UNCHANGED disk /\ Goto(a, undo))
  BY DEF Open, At, Kinds, CopyPcs, Undoing, Outcome
<1>2. PICK t \in Stems : t = job[a].to
  BY <1>1, CopyFacts
<1>3. /\ a \in Actors /\ job[a] \in Jobs /\ i \in Nat
      /\ CopyTask(a) /\ CopyOwn(a) /\ CopyContent(a) /\ CopyLeft(a) /\ job[a].says.audit \in BOOLEAN
  BY <1>1, CopyFacts
<1>4. CASE UNCHANGED disk /\ Goto(a, undo)
  BY <1>1, <1>4, GiveUpInv
<1>5. CASE W
  <2> DEFINE J == [job[a] EXCEPT !.pc = next, !.created = job[a].created \cup {k}]
             made == job[a].created \cup {k}
             says == job[a].says
  <2>1. made \subseteq Kinds
    BY <1>1, <1>3 DEF Jobs
  <2>2. /\ J \in Jobs /\ J.pc = next /\ J.id = i /\ J.to = t /\ J.says = says /\ J.hash = job[a].hash
        /\ J.created = made
    <3> HIDE DEF i
    <3> QED BY <1>1, <1>2, <1>3, <2>1 DEF Jobs, i
  <2>3. Step(a, J) /\ ~Exists(t, k)
    BY <1>2, <1>5
  <2> HIDE DEF J
  <2>4. GoesOn(a, t, J) /\ J # Idle
    BY <1>1, <1>2, <2>2, <2>3, IdleFacts DEF GoesOn
  <2>5. PICK x \in Files : x = File(i, Torn, FALSE, None)
    <3>1. Torn \in Data
      BY <1>3, DataFacts
    <3> QED BY <1>3, <3>1 DEF File, Files
  <2>6. Wrote(a, t, J, k, x) /\ x # None /\ x.data = Torn /\ x.by = i
    <3>1. x \in Files \cup {None} /\ x # None /\ x.by = job[a].id /\ x.data = Torn
      BY <2>5, NoneAssumption DEF File
    <3>2. Put(Path(a, k), x)
      BY <1>5, <2>5 DEF New
    <3>3. Wrote(a, t, J, k, x)
      BY <1>1, <1>3, <2>3, <2>4, <3>1, <3>2, PutStep
    <3> QED BY <3>1, <3>3
  <2>7. /\ job'[a] = J /\ ActorStep(a) /\ TypeInv' /\ Own(a)' = Own(a) \cup {k}
        /\ disk'[<<t, k>>] = x /\ \A l \in Kinds \ {k} : disk'[<<t, l>>] = disk[<<t, l>>]
    BY <2>4, <2>6 DEF Wrote
  <2>8. \A l \in Kinds : Path(a, l)' = <<t, l>> /\ Path(a, l) = <<t, l>>
    BY <1>2, <2>2, <2>7 DEF Path
  <2>9. job[a].created = CopyMade(p, says) /\ Own(a) = CopyMade(p, says)
    BY <1>1, <1>3 DEF CopyOwn
  <2>10. made = CopyMade(next, says) /\ Own(a)' = CopyMade(next, says) /\ made \subseteq Outcome
    <3> DEFINE M == CopyMade(p, says)
               N == CopyMade(next, says)
    <3>1. M \cup {k} = N
      <4> HIDE DEF says
      <4>1. CASE p = "open csv" /\ k = "csv" /\ next = "fill csv"
        BY <4>1 DEF CopyMade
      <4>2. CASE p = "open raw" /\ k = "raw" /\ next = "fill raw"
        BY <4>2 DEF CopyMade
      <4>3. CASE p = "open json" /\ k = "json" /\ next = "fill json"
        BY <4>3 DEF CopyMade, Kept, Outcome
      <4> QED BY <4>1, <4>2, <4>3
    <3>2. made \subseteq Outcome
      BY <1>1, <1>3 DEF CopyOwn
    <3> HIDE DEF M, N
    <3>3. job[a].created = M /\ Own(a) = M
      BY <2>9 DEF M
    <3>4. made = N /\ Own(a)' = N
      BY <2>7, <3>1, <3>3
    <3> QED BY <3>2, <3>4 DEF N
  <2>11. CopyTask(a)'
    BY <1>3, <2>2, <2>7 DEF CopyTask
  <2>12. CopyOwn(a)'
    BY <1>1, <2>2, <2>7, <2>10 DEF CopyOwn
  <2>13. CopyContent(a)'
    <3>1. CASE p = "open csv" /\ k = "csv" /\ next = "fill csv"
      BY <2>2, <2>7, <3>1 DEF CopyContent
    <3>2. CASE p = "open raw" /\ k = "raw" /\ next = "fill raw"
      <4>1. says.audit /\ Copied(a, {"csv"})
        BY <1>1, <1>3, <3>2 DEF CopyContent
      <4>2. disk'[<<t, "csv">>] = disk[<<t, "csv">>]
        BY <2>7, <3>2 DEF Kinds
      <4>3. Copied(a, {"csv"})'
        BY <2>2, <2>7, <2>8, <4>1, <4>2 DEF Copied, Durable, Kinds
      <4> QED BY <2>2, <2>7, <3>2, <4>1, <4>3 DEF CopyContent
    <3>3. CASE p = "open json" /\ k = "json" /\ next = "fill json"
      <4>1. Copied(a, Kept(says)) /\ (says.hashed => says.hash = HashOf(t, says.audit))
        BY <1>1, <1>2, <1>3, <3>3 DEF CopyContent
      <4>2. disk'[<<t, "csv">>] = disk[<<t, "csv">>] /\ disk'[<<t, "raw">>] = disk[<<t, "raw">>]
        BY <2>7, <3>3 DEF Kinds
      <4>3. Copied(a, Kept(says))'
        <5>1. Kept(says)' = Kept(says)
          BY <2>2, <2>7 DEF Kept
        <5>2. PICK K : K = Kept(says)
          OBVIOUS
        <5>3. Copied(a, K)'
          BY <2>2, <2>7, <2>8, <4>1, <4>2, <5>2 DEF Copied, Durable, Kinds
        <5> QED BY <5>1, <5>2, <5>3
      <4>4. HashOf(t, says.audit)' = HashOf(t, says.audit)
        BY <2>2, <2>7, <4>2 DEF HashOf
      <4>5. disk'[<<t, "json">>].data = Torn
        BY <2>6, <2>7, <3>3
      <4> QED BY <2>2, <2>7, <2>8, <3>3, <4>1, <4>3, <4>4, <4>5 DEF CopyContent, Kinds
    <3> QED BY <3>1, <3>2, <3>3
  <2>14. CopyLeft(a)'
    BY <1>1, <2>2, <2>7 DEF CopyLeft, Undoing
  <2>15. CopyInv(a)'
    BY <1>1, <2>2, <2>7, <2>11, <2>12, <2>13, <2>14 DEF CopyInv
  <2>16. \/ disk'[<<t, "json">>] = disk[<<t, "json">>] /\ "json" \notin Own(a)
         \/ disk'[<<t, "json">>].data = Torn
    <3>1. CASE k = "json"
      BY <2>6, <2>7, <3>1
    <3>2. CASE k # "json"
      <4>1. disk'[<<t, "json">>] = disk[<<t, "json">>]
        BY <2>7, <3>2 DEF Kinds
      <4>2. "json" \notin CopyMade(p, says)
        <5> HIDE DEF says
        <5> QED BY <3>2 DEF CopyMade
      <4> QED BY <2>9, <4>1, <4>2
    <3> QED BY <3>1, <3>2
  <2> QED BY <1>2, <2>7, <2>15, <2>16, CopyStepInv
<1> QED BY <1>1, <1>4, <1>5

\* The manifest of a copy vouches for what was copied.
LEMMA SealWritten ==
    ASSUME IInv, NEW a \in Exporters, job[a].pc = "fill json", NEW t, t = job[a].to,
           NEW w \in Files, w.by = job[a].id, w.says = job[a].says, disk'[<<t, "json">>] = w,
           disk'[<<t, "csv">>] = disk[<<t, "csv">>], disk'[<<t, "raw">>] = disk[<<t, "raw">>]
    PROVE  ManifestInv(t)' /\ SealInv(t)'
<1> DEFINE i == job[a].id
<1>1. PICK m \in Says : m = job[a].says
  <2>1. ~At(a, "idle")
    BY DEF At
  <2> QED BY <2>1, CopyFacts
<1>2. /\ CopyOwn(a) /\ Copied(a, Kept(m)) /\ (m.hashed => m.hash = HashOf(t, m.audit)) /\ m.audit \in BOOLEAN
      /\ (~m.hashed => m.hash = None)
  <2>1. ~At(a, "idle")
    BY DEF At
  <2>2. CopyOwn(a) /\ CopyContent(a)
    BY <2>1, CopyFacts
  <2> QED BY <1>1, <2>2 DEF CopyContent, Says
<1>3. Own(a) = Kept(m)
  <2>1. CopyMade("fill json", m) = Kept(m)
    BY DEF CopyMade
  <2> QED BY <1>1, <1>2, <2>1 DEF CopyOwn, Undoing
<1>4. Kept(m) \subseteq Outcome /\ "csv" \in Kept(m) /\ (m.audit <=> "raw" \in Kept(m))
  BY DEF Kept, Outcome
<1>5. \A k \in Kept(m) : disk[<<t, k>>] # None /\ disk[<<t, k>>].by = i
  BY <1>3 DEF Own, Mine, Exists, Path
<1>6. \A k \in Kept(m) \ {"json"} : disk'[<<t, k>>] = disk[<<t, k>>] /\ disk[<<t, k>>].synced
  <2>1. "csv" \in Kept(m) => disk[<<t, "csv">>].synced
    BY <1>2 DEF Copied, Durable, Path
  <2>2. "raw" \in Kept(m) => disk[<<t, "raw">>].synced
    BY <1>2 DEF Copied, Durable, Path
  <2> QED BY <1>4, <2>1, <2>2 DEF Outcome
<1>7. HashOf(t, m.audit)' = HashOf(t, m.audit)
  BY DEF HashOf
<1>8. w # None /\ ManifestInv(t)'
  BY <1>1, NoneAssumption DEF ManifestInv
<1>9. SealInv(t)'
  <2> SUFFICES ASSUME m.hash # None
               PROVE  /\ \A k \in Kept(m) : disk'[<<t, k>>] # None /\ disk'[<<t, k>>].by = i
                      /\ \A k \in Kept(m) \ {"json"} : disk'[<<t, k>>].synced
                      /\ HashOf(t, m.audit)' = m.hash
    BY <1>1 DEF SealInv, Exists, Kept, HashOf
  <2>1. \A k \in Kept(m) : disk'[<<t, k>>] # None /\ disk'[<<t, k>>].by = i
    BY <1>5, <1>6, <1>8
  <2> QED BY <1>2, <1>6, <1>7, <2>1
<1> QED BY <1>8, <1>9

\* io::copy or to_writer_pretty, and sync_all: a copy goes on with whole and
\* durable recordings only.
LEMMA FillInv ==
    ASSUME IInv, NEW a \in Exporters, NEW p, NEW k, NEW data \in Data, NEW m \in Says \cup {None}, NEW next,
           Fill(a, p, k, data, m, next), UNCHANGED left,
           \/ p = "fill csv" /\ k = "csv" /\ data = job[a].hash.csv
              /\ next = (IF job[a].says.audit THEN "open raw" ELSE "rehash")
           \/ p = "fill raw" /\ k = "raw" /\ data = job[a].hash.raw /\ next = "rehash"
           \/ p = "fill json" /\ k = "json" /\ m = job[a].says /\ next = "saved"
    PROVE  ActorStep(a) /\ IInv'
<1> DEFINE i == job[a].id
           undo == "undo json"
           says == job[a].says
<1>1. /\ job[a].pc = p /\ k \in Kinds /\ k \in Outcome /\ next \in CopyPcs /\ p # next /\ ~At(a, "idle")
      /\ next # "idle" /\ p # undo /\ p \notin Undoing /\ next \notin Undoing /\ undo \in CopyPcs /\ undo # "idle"
      /\ left \subseteq left'
  BY DEF Fill, At, Kinds, CopyPcs, Undoing, Outcome
<1>2. PICK t \in Stems : t = job[a].to
  BY <1>1, CopyFacts
<1>3. /\ a \in Actors /\ job[a] \in Jobs /\ i \in Nat /\ says \in Says /\ says.audit \in BOOLEAN
      /\ CopyTask(a) /\ CopyOwn(a) /\ CopyContent(a) /\ CopyLeft(a)
  BY <1>1, CopyFacts
<1>4. job[a].created = CopyMade(p, says) /\ Own(a) = CopyMade(p, says) /\ k \in Own(a)
  <2>1. k \in CopyMade(p, says)
    <3> HIDE DEF says
    <3> QED BY DEF CopyMade, Kept, Outcome
  <2> QED BY <1>1, <1>3, <2>1 DEF CopyOwn
<1>5. PICK x \in Files : x = File(i, data, TRUE, m)
  BY <1>3 DEF File, Files
<1>6. PICK y \in Files : y = File(i, data, FALSE, m)
  BY <1>3 DEF File, Files
<1>7. /\ x \in Files \cup {None} /\ x # None /\ x.by = i /\ x.says = m /\ x.data = data /\ x.synced
      /\ y \in Files \cup {None} /\ y # None /\ y.by = i /\ y.says = m
  BY <1>5, <1>6, NoneAssumption DEF File
<1>8. \/ Put(Path(a, k), x) /\ Goto(a, next)
      \/ Put(Path(a, k), y) /\ Goto(a, undo)
      \/ UNCHANGED disk /\ Goto(a, undo)
  BY <1>5, <1>6 DEF Fill
<1>9. Mine(a, k)
  BY <1>1, <1>4 DEF Own
<1>10. k # "json" => "json" \notin Own(a)
  <2>1. k # "json" => "json" \notin CopyMade(p, says)
    <3> HIDE DEF says
    <3> QED BY DEF CopyMade, Kept, Outcome
  <2> QED BY <1>4, <2>1
<1>11. ASSUME NEW w \in {x, y}, disk'[<<t, k>>] = w, \A l \in Kinds \ {k} : disk'[<<t, l>>] = disk[<<t, l>>]
       PROVE  \/ disk'[<<t, "json">>] = disk[<<t, "json">>] /\ "json" \notin Own(a)
              \/ ManifestInv(t)' /\ SealInv(t)'
  <2>1. CASE k # "json"
    BY <1>10, <1>11, <2>1 DEF Kinds
  <2>2. CASE k = "json"
    <3>1. /\ job[a].pc = "fill json" /\ w \in Files /\ w.by = job[a].id /\ w.says = job[a].says
          /\ disk'[<<t, "json">>] = w
      BY <1>1, <1>7, <1>11, <2>2
    <3>2. disk'[<<t, "csv">>] = disk[<<t, "csv">>] /\ disk'[<<t, "raw">>] = disk[<<t, "raw">>]
      BY <1>11, <2>2 DEF Kinds
    <3> QED BY <1>2, <3>1, <3>2, SealWritten
  <2> QED BY <2>1, <2>2
<1>12. CASE UNCHANGED disk /\ Goto(a, undo)
  BY <1>1, <1>12, GiveUpInv
<1>13. CASE Put(Path(a, k), y) /\ Goto(a, undo)
  <2>1. PICK j \in Jobs : /\ GoesOn(a, t, j) /\ j # Idle /\ j.pc = undo /\ j.created = job[a].created
                          /\ j.says = job[a].says /\ j.hash = job[a].hash
    <3>1. undo \in Pcs \cup CopyPcs /\ undo # "idle" /\ undo # job[a].pc
      BY <1>1
    <3> HIDE DEF undo
    <3> QED BY <1>1, <1>2, <1>3, <1>13, <3>1, GotoFacts
  <2>2. Wrote(a, t, j, k, y)
    BY <1>1, <1>3, <1>7, <1>9, <1>13, <2>1, PutStep
  <2>3. /\ job'[a] = j /\ ActorStep(a) /\ TypeInv' /\ Own(a)' = Own(a)
        /\ disk'[<<t, k>>] = y /\ \A l \in Kinds \ {k} : disk'[<<t, l>>] = disk[<<t, l>>]
    BY <1>4, <1>7, <2>1, <2>2 DEF Wrote
  <2>4. CopyInv(a)'
    BY <1>1, <2>1, <2>3, UndoBegins
  <2> QED BY <1>2, <1>11, <2>3, <2>4, CopyStepInv
<1>14. CASE Put(Path(a, k), x) /\ Goto(a, next)
  <2>1. PICK j \in Jobs : /\ GoesOn(a, t, j) /\ j # Idle /\ j.pc = next /\ j.created = job[a].created
                          /\ j.says = says /\ j.hash = job[a].hash /\ j.to = t /\ j.id = i
    <3>1. next \in Pcs \cup CopyPcs /\ next # "idle" /\ next # job[a].pc
      BY <1>1
    <3> QED BY <1>1, <1>2, <1>3, <1>14, <3>1, GotoFacts
  <2>2. Wrote(a, t, j, k, x)
    BY <1>1, <1>3, <1>7, <1>9, <1>14, <2>1, PutStep
  <2>3. /\ job'[a] = j /\ ActorStep(a) /\ TypeInv' /\ Own(a)' = Own(a)
        /\ disk'[<<t, k>>] = x /\ \A l \in Kinds \ {k} : disk'[<<t, l>>] = disk[<<t, l>>]
    BY <1>4, <1>7, <2>1, <2>2 DEF Wrote
  <2>4. \A l \in Kinds : Path(a, l)' = <<t, l>> /\ Path(a, l) = <<t, l>>
    BY <1>2, <2>1, <2>3 DEF Path
  <2>5. CopyMade(next, says) = CopyMade(p, says)
    <3>1. says.audit \in BOOLEAN /\ job[a].says = says
      BY <1>3
    <3>2. p = "fill raw" => says.audit
      BY <1>1, <1>3 DEF CopyContent
    <3> HIDE DEF says
    <3>3. CASE p = "fill csv" /\ next = (IF says.audit THEN "open raw" ELSE "rehash")
      BY <3>1, <3>3 DEF CopyMade, Kept, Outcome
    <3>4. CASE p = "fill raw" /\ next = "rehash"
      BY <3>2, <3>4 DEF CopyMade, Kept, Outcome
    <3>5. CASE p = "fill json" /\ next = "saved"
      BY <3>5 DEF CopyMade
    <3> QED BY <3>1, <3>3, <3>4, <3>5
  <2>6. CopyTask(a)'
    BY <1>3, <2>1, <2>3 DEF CopyTask
  <2>7. CopyOwn(a)'
    <3>1. job[a].created \subseteq Outcome
      BY <1>3 DEF CopyOwn
    <3> QED BY <1>1, <1>4, <2>1, <2>3, <2>5, <3>1 DEF CopyOwn
  <2>8. CopyContent(a)'
    <3>1. CASE p = "fill csv" /\ k = "csv" /\ data = job[a].hash.csv /\ next = (IF says.audit THEN "open raw" ELSE "rehash")
      <4>1. disk'[<<t, "csv">>].synced /\ disk'[<<t, "csv">>].data = job[a].hash.csv
        BY <1>7, <2>3, <3>1
      <4>2. Copied(a, {"csv"})'
        BY <2>1, <2>3, <2>4, <4>1 DEF Copied, Durable, Kinds
      <4>3. ~says.audit => Copied(a, Kept(says))'
        BY <2>1, <2>3, <2>4, <4>1 DEF Copied, Durable, Kinds, Kept, Outcome
      <4>4. job'[a].says = says /\ job'[a].pc = next
        BY <2>1, <2>3
      <4>5. CASE says.audit
        <5>1. next = "open raw"
          BY <3>1, <4>5
        <5> QED BY <4>2, <4>4, <4>5, <5>1 DEF CopyContent
      <4>6. CASE ~says.audit
        <5>1. next = "rehash"
          BY <3>1, <4>6
        <5> QED BY <4>3, <4>4, <4>6, <5>1 DEF CopyContent
      <4> QED BY <4>5, <4>6
    <3>2. CASE p = "fill raw" /\ k = "raw" /\ data = job[a].hash.raw /\ next = "rehash"
      <4>1. disk'[<<t, "raw">>].synced /\ disk'[<<t, "raw">>].data = job[a].hash.raw
        BY <1>7, <2>3, <3>2
      <4>2. Copied(a, {"csv"})
        BY <1>1, <1>3, <3>2 DEF CopyContent
      <4>3. disk'[<<t, "csv">>] = disk[<<t, "csv">>]
        BY <2>3, <3>2 DEF Kinds
      <4>4. disk'[<<t, "csv">>].synced /\ disk'[<<t, "csv">>].data = job[a].hash.csv
        BY <2>4, <4>2, <4>3 DEF Copied, Durable, Kinds
      <4>5. Copied(a, Kept(says))'
        BY <2>1, <2>3, <2>4, <4>1, <4>4 DEF Copied, Durable, Kinds
      <4>6. job'[a].says = says /\ job'[a].pc = "rehash"
        BY <2>1, <2>3, <3>2
      <4> QED BY <4>5, <4>6 DEF CopyContent
    <3>3. CASE p = "fill json" /\ k = "json" /\ next = "saved"
      <4>1. Copied(a, Kept(says)) /\ (says.hashed => says.hash = HashOf(t, says.audit))
        BY <1>1, <1>2, <1>3, <3>3 DEF CopyContent
      <4>2. disk'[<<t, "csv">>] = disk[<<t, "csv">>] /\ disk'[<<t, "raw">>] = disk[<<t, "raw">>]
        BY <2>3, <3>3 DEF Kinds
      <4>3. Copied(a, Kept(says))'
        <5>1. Kept(says)' = Kept(says)
          BY <2>1, <2>3 DEF Kept
        <5>2. PICK K : K = Kept(says)
          OBVIOUS
        <5>3. Copied(a, K)'
          BY <2>1, <2>3, <2>4, <4>1, <4>2, <5>2 DEF Copied, Durable, Kinds
        <5> QED BY <5>1, <5>2, <5>3
      <4>4. HashOf(t, says.audit)' = HashOf(t, says.audit)
        BY <2>1, <2>3, <4>2 DEF HashOf
      <4> QED BY <2>1, <2>3, <3>3, <4>1, <4>3, <4>4 DEF CopyContent
    <3> QED BY <3>1, <3>2, <3>3
  <2>9. CopyLeft(a)'
    BY <1>1, <2>1, <2>3 DEF CopyLeft, Undoing
  <2>10. CopyInv(a)'
    BY <1>1, <2>1, <2>3, <2>6, <2>7, <2>8, <2>9 DEF CopyInv
  <2> QED BY <1>2, <1>11, <2>3, <2>10, CopyStepInv
<1> QED BY <1>8, <1>12, <1>13, <1>14

\* The three files of a copy.
LEMMA CopyFileInv ==
    ASSUME IInv, NEW a \in Exporters, CopyCsv(a) \/ CopyAudit(a) \/ CopyManifest(a)
    PROVE  ActorStep(a) /\ IInv'
<1> DEFINE p1 == "open csv"
           p2 == "fill csv"
           p3 == "open raw"
           p4 == "fill raw"
           p5 == "open json"
           p6 == "fill json"
           p7 == "rehash"
           p8 == "saved"
           csv == job[a].hash.csv
           raw == job[a].hash.raw
           whole == Whole(job[a].id)
           says == job[a].says
           next == IF says.audit THEN p3 ELSE p7
<1>1. CASE Open(a, p1, "csv", p2) \/ Open(a, p3, "raw", p4) \/ Open(a, p5, "json", p6)
  BY <1>1, OpenInv
<1>2. CASE At(a, p2) /\ Fill(a, p2, "csv", csv, None, next)
  <2>1. csv \in Data
    <3>1. ~At(a, "idle")
      BY <1>2 DEF At
    <3> QED BY <3>1, CopyFacts
  <2>2. UNCHANGED left
    BY <1>2 DEF Fill
  <2> HIDE DEF csv, raw, whole
  <2> QED BY <1>2, <2>1, <2>2, FillInv DEF csv
<1>3. CASE At(a, p4) /\ Fill(a, p4, "raw", raw, None, p7)
  <2>1. raw \in Data
    <3>1. ~At(a, "idle")
      BY <1>3 DEF At
    <3>2. says.audit
      BY <1>3, <3>1, CopyFacts DEF CopyContent, At
    <3> QED BY <3>1, <3>2, CopyFacts
  <2>2. UNCHANGED left
    BY <1>3 DEF Fill
  <2> HIDE DEF csv, raw, whole
  <2> QED BY <1>3, <2>1, <2>2, FillInv DEF raw
<1>4. CASE At(a, p6) /\ Fill(a, p6, "json", whole, says, p8)
  <2>1. whole \in Data /\ says \in Says
    <3>1. ~At(a, "idle")
      BY <1>4 DEF At
    <3>2. job[a].id \in Nat /\ job[a].says \in Says
      BY <3>1, CopyFacts
    <3> QED BY <3>2, DataFacts
  <2>2. UNCHANGED left
    BY <1>4 DEF Fill
  <2> HIDE DEF csv, raw, whole
  <2> QED BY <1>4, <2>1, <2>2, FillInv
<1>5. CopyCsv(a) => Open(a, p1, "csv", p2) \/ (At(a, p2) /\ Fill(a, p2, "csv", csv, None, next))
  BY DEF CopyCsv
<1>6. CopyAudit(a) => Open(a, p3, "raw", p4) \/ (At(a, p4) /\ Fill(a, p4, "raw", raw, None, p7))
  BY DEF CopyAudit
<1>7. CopyManifest(a) => Open(a, p5, "json", p6) \/ (At(a, p6) /\ Fill(a, p6, "json", whole, says, p8))
  BY DEF CopyManifest
<1> HIDE DEF p1, p2, p3, p4, p5, p6, p7, p8, csv, raw, whole, says, next
<1> QED BY <1>1, <1>2, <1>3, <1>4, <1>5, <1>6, <1>7

\* The hashes of the copy go into its manifest.
LEMMA RehashInv ==
    ASSUME IInv, NEW a \in Exporters, Rehash(a)
    PROVE  ActorStep(a) /\ IInv'
<1> DEFINE p == "rehash"
           q == "open json"
           undo == "undo json"
           i == job[a].id
           says == job[a].says
           H == HashOf(job[a].to, job[a].says.audit)
           J == [job[a] EXCEPT !.pc = q, !.says.hash = H]
           K == [job[a] EXCEPT !.pc = q]
<1>1. job[a].pc = p /\ ~At(a, "idle") /\ UNCHANGED <<disk, left>> /\ left \subseteq left'
  BY DEF Rehash, At
<1>2. PICK t \in Stems : t = job[a].to
  BY <1>1, CopyFacts
<1>3. /\ a \in Actors /\ job[a] \in Jobs /\ i \in Nat /\ says \in Says /\ says.audit \in BOOLEAN
      /\ CopyTask(a) /\ CopyOwn(a) /\ CopyContent(a)
  BY <1>1, CopyFacts
<1>4. /\ job[a].created = Kept(says) \ {"json"} /\ Own(a) = Kept(says) \ {"json"} /\ job[a].created \subseteq Outcome
      /\ Copied(a, Kept(says))
  <2>1. CopyMade(p, says) = Kept(says) \ {"json"}
    BY DEF CopyMade
  <2>2. Copied(a, Kept(says)) /\ job[a].created \subseteq Outcome
    BY <1>1, <1>3 DEF CopyContent, CopyOwn
  <2> HIDE DEF says
  <2> QED BY <1>1, <1>3, <2>1, <2>2 DEF CopyOwn, Undoing, says
<1>5. H \in Hash
  <2>1. \A k \in Own(a) : disk[<<t, k>>].data \in Data
    <3>1. ASSUME NEW k \in Own(a) PROVE disk[<<t, k>>].data \in Data
      <4>1. k \in Kinds /\ disk[<<t, k>>] # None
        BY <1>2 DEF Own, Mine, Exists, Path
      <4>2. disk[<<t, k>>] \in Files
        BY <4>1, FileFacts DEF IInv, Exists
      <4> QED BY <4>2 DEF Files
    <3> QED BY <3>1
  <2>2. "csv" \in Own(a) /\ (says.audit => "raw" \in Own(a))
    BY <1>4 DEF Kept, Outcome
  <2>3. disk[<<t, "csv">>].data \in Data /\ (says.audit => disk[<<t, "raw">>].data \in Data)
    BY <2>1, <2>2
  <2> QED BY <1>2, <2>3 DEF HashOf, Hash
<1>6. CASE Goto(a, undo)
  <2>1. job[a].pc \notin Undoing
    BY <1>1 DEF Undoing
  <2> QED BY <1>1, <1>6, <2>1, GiveUpInv
<1>7. ASSUME NEW j \in Jobs, Step(a, j), j.pc = q, j.id = i, j.to = t, j.hash = job[a].hash, j.created = job[a].created,
             j.says \in Says, j.says.audit = says.audit, j.says.hashed => j.says.hash = H
      PROVE  ActorStep(a) /\ IInv'
  <2>1. GoesOn(a, t, j) /\ j # Idle
    <3>1. q # p /\ q # "idle"
      OBVIOUS
    <3> HIDE DEF q, p, H, says, i
    <3> QED BY <1>1, <1>2, <1>7, <3>1, IdleFacts DEF GoesOn, i
  <2>2. Still(a, j)
    BY <1>1, <1>3, <2>1, StillStep
  <2>3. job'[a] = j /\ Own(a)' = Own(a) /\ disk' = disk
    BY <1>1, <2>1, <2>2 DEF Still
  <2>4. Kept(j.says) = Kept(says)
    BY <1>7 DEF Kept
  <2>5. CopyTask(a)'
    BY <1>3, <1>7, <2>3 DEF CopyTask
  <2>6. CopyOwn(a)'
    <3>1. CopyMade(q, j.says) = Kept(j.says) \ {"json"}
      BY DEF CopyMade
    <3>2. q \notin Undoing
      BY DEF Undoing
    <3>3. CopyMade(j.pc, j.says) = job[a].created /\ Own(a)' = job[a].created
      BY <1>4, <1>7, <2>3, <2>4, <3>1
    <3>4. q \notin {"undo json", "undo raw", "undo csv"}
      OBVIOUS
    <3> HIDE DEF q, H, says, i
    <3> QED BY <1>4, <1>7, <2>3, <3>2, <3>3, <3>4 DEF CopyOwn
  <2>7. CopyContent(a)'
    <3>1. PICK k : k = Kept(says)
      OBVIOUS
    <3>2. Copied(a, k)'
      BY <1>4, <1>7, <2>3, <3>1, <1>2 DEF Copied, Durable, Path
    <3>3. Kept(j.says)' = Kept(j.says)
      BY DEF Kept
    <3>4. HashOf(t, j.says.audit)' = H
      BY <1>2, <1>7, <2>3 DEF HashOf
    <3> HIDE DEF H, says
    <3> QED BY <1>7, <2>3, <2>4, <3>1, <3>2, <3>3, <3>4 DEF CopyContent
  <2>8. CopyLeft(a)'
    BY <1>7, <2>3 DEF CopyLeft
  <2>9. CopyInv(a)'
    BY <1>7, <2>3, <2>5, <2>6, <2>7, <2>8 DEF CopyInv, CopyPcs
  <2>10. ManifestInv(t)' /\ SealInv(t)'
    BY <1>1, SealStands
  <2> QED BY <1>2, <2>2, <2>9, <2>10, CopyStepInv DEF Still
<1>8. CASE says.hashed /\ Step(a, J)
  <2> DEFINE m == [says EXCEPT !.hash = H]
             L == [job[a] EXCEPT !.pc = q, !.says = m]
  <2>1. J = L
    <3> HIDE DEF H, q
    <3> QED BY <1>3 DEF Jobs
  <2>2. m \in Says /\ m.audit = says.audit /\ m.hash = H
    <3> HIDE DEF H
    <3> QED BY <1>3, <1>5, <1>8 DEF Says
  <2>3. /\ L \in Jobs /\ L.pc = q /\ L.id = i /\ L.to = t /\ L.hash = job[a].hash /\ L.created = job[a].created
        /\ L.says = m
    <3> HIDE DEF m
    <3> QED BY <1>2, <1>3, <2>2 DEF Jobs, CopyPcs
  <2> HIDE DEF L, J, m, q, i
  <2> QED BY <1>7, <1>8, <2>1, <2>2, <2>3
<1>9. CASE ~says.hashed /\ Step(a, K)
  <2>1. /\ K \in Jobs /\ K.pc = q /\ K.id = i /\ K.to = t /\ K.hash = job[a].hash /\ K.created = job[a].created
        /\ K.says = says
    BY <1>2, <1>3 DEF Jobs, CopyPcs
  <2> HIDE DEF K, q, i
  <2> QED BY <1>3, <1>7, <1>9, <2>1
<1>10. \/ says.hashed /\ Step(a, J)
       \/ ~says.hashed /\ Step(a, K)
       \/ Goto(a, undo)
  BY DEF Rehash, Goto
<1> QED BY <1>6, <1>8, <1>9, <1>10

\* Removing what was made; what cannot be removed is reported.
LEMMA RemoveInv ==
    ASSUME IInv, NEW a \in Exporters, NEW p, NEW k, NEW next, Remove(a, p, k, next),
           \/ p = "undo json" /\ k = "json" /\ next = "undo raw"
           \/ p = "undo raw" /\ k = "raw" /\ next = "undo csv"
           \/ p = "undo csv" /\ k = "csv" /\ next = "failed"
    PROVE  ActorStep(a) /\ IInv'
<1>1. /\ job[a].pc = p /\ ~At(a, "idle") /\ k \in Kinds /\ next \in Pcs \cup CopyPcs /\ next # "idle" /\ next # p
      /\ next \in Undoing /\ next # "undo json" /\ next \in CopyPcs /\ Goto(a, next) /\ left \subseteq left'
  BY DEF Remove, At, Kinds, CopyPcs, Undoing
<1>2. PICK t \in Stems : t = job[a].to
  BY <1>1, CopyFacts
<1>3. a \in Actors /\ CopyTask(a) /\ CopyOwn(a) /\ CopyLeft(a)
  BY <1>1, CopyFacts
<1>4. PICK j \in Jobs : /\ GoesOn(a, t, j) /\ j # Idle /\ j.pc = next /\ j.created = job[a].created
                        /\ j.says = job[a].says /\ j.hash = job[a].hash /\ j.to = t /\ j.id = job[a].id
  BY <1>1, <1>2, <1>3, GotoFacts
<1>5. /\ \/ k \notin job[a].created /\ UNCHANGED <<disk, left>>
         \/ k \in job[a].created /\ Put(Path(a, k), None) /\ UNCHANGED left
         \/ k \in job[a].created /\ left' = left \cup {Path(a, k)} /\ UNCHANGED disk
  BY DEF Remove
<1>6. k \in job[a].created => k \in Own(a) /\ Mine(a, k)
  <2>1. k \in job[a].created => k \in Own(a)
    BY <1>1, <1>3 DEF CopyOwn
  <2> QED BY <2>1 DEF Own
<1>7. /\ job'[a] = j /\ ActorStep(a) /\ TypeInv'
      /\ \/ Own(a)' = Own(a) /\ UNCHANGED disk /\ (k \in Own(a) => <<t, k>> \in left')
         \/ Own(a)' = Own(a) \ {k} /\ disk'[<<t, k>>] = None /\ \A l \in Kinds \ {k} : disk'[<<t, l>>] = disk[<<t, l>>]
  <2>1. CASE k \in job[a].created /\ Put(Path(a, k), None)
    <3>1. PICK x \in Files \cup {None} : x = None
      OBVIOUS
    <3>2. Wrote(a, t, j, k, x)
      BY <1>1, <1>3, <1>4, <1>6, <2>1, <3>1, PutStep
    <3> QED BY <1>4, <3>1, <3>2 DEF Wrote
  <2>2. CASE UNCHANGED disk /\ (k \in job[a].created => left' = left \cup {Path(a, k)})
    <3>1. Still(a, j)
      BY <1>3, <1>4, <2>2, StillStep
    <3>2. k \in Own(a) => <<t, k>> \in left'
      BY <1>2, <1>3, <2>2 DEF CopyOwn, Path
    <3> QED BY <1>4, <2>2, <3>1, <3>2 DEF Still
  <2> QED BY <1>5, <2>1, <2>2
<1>8. \A l \in Kinds : /\ l \in Own(a)' <=> Mine(a, l)'
                       /\ l \in Own(a) <=> Mine(a, l)
                       /\ Path(a, l) = <<t, l>> /\ Path(a, l)' = <<t, l>>
  <2>1. t = job[a].to /\ job'[a].to = t /\ job'[a].id = job[a].id
    BY <1>2, <1>4, <1>7
  <2>2. \A l \in Kinds :
          /\ l \in Own(a)' <=> disk'[<<t, l>>] # None /\ disk'[<<t, l>>].by = job[a].id
          /\ l \in Own(a) <=> disk[<<t, l>>] # None /\ disk[<<t, l>>].by = job[a].id
          /\ (Mine(a, l)' <=> l \in Own(a)') /\ (Mine(a, l) <=> l \in Own(a))
          /\ Path(a, l) = <<t, l>> /\ Path(a, l)' = <<t, l>>
    BY <1>3, <2>1, OwnAfter
  <2> QED BY <2>2
<1>9. Own(a)' \subseteq Own(a) /\ Own(a) \ {k} \subseteq Own(a)'
  BY <1>7
<1>10. CopyTask(a)'
  BY <1>3, <1>4, <1>7 DEF CopyTask
<1>11. CopyOwn(a)'
  BY <1>1, <1>3, <1>4, <1>7, <1>9 DEF CopyOwn
<1>12. CopyContent(a)'
  BY <1>1, <1>4, <1>7 DEF CopyContent, Undoing
<1>13. CopyLeft(a)'
  <2>1. k \in Own(a)' => <<t, k>> \in left'
    BY <1>7
  <2>2. \A l \in {"json", "raw", "csv"} : Mine(a, l)' => Mine(a, l) /\ Path(a, l)' = Path(a, l)
    BY <1>8, <1>9 DEF Kinds
  <2>3. Mine(a, k)' => Path(a, k)' \in left'
    BY <1>1, <1>8, <2>1
  <2> QED BY <1>1, <1>3, <1>4, <1>7, <2>2, <2>3 DEF CopyLeft
<1>14. CopyInv(a)'
  BY <1>1, <1>4, <1>7, <1>10, <1>11, <1>12, <1>13 DEF CopyInv
<1>15. \/ disk'[<<t, "json">>] = disk[<<t, "json">>] /\ "json" \notin Own(a)
       \/ disk'[<<t, "json">>] = None
       \/ ManifestInv(t)' /\ SealInv(t)'
  <2>1. CASE UNCHANGED disk
    BY <1>1, <2>1, SealStands
  <2>2. CASE k = "json" /\ disk'[<<t, k>>] = None
    BY <2>2
  <2>3. CASE k # "json" /\ \A l \in Kinds \ {k} : disk'[<<t, l>>] = disk[<<t, l>>]
    <3>1. disk'[<<t, "json">>] = disk[<<t, "json">>]
      BY <2>3 DEF Kinds
    <3>2. "json" \in Own(a) => <<t, "json">> \in left
      BY <1>1, <1>3, <1>8, <2>3 DEF CopyLeft, Kinds
    <3> QED BY <1>1, <3>1, <3>2, SealStands
  <2> QED BY <1>7, <2>1, <2>2, <2>3
<1> QED BY <1>2, <1>7, <1>14, <1>15, CopyStepInv

\* The end of a copy.
LEMMA ReportInv ==
    ASSUME IInv, NEW a \in Exporters, Report(a)
    PROVE  ActorStep(a) /\ IInv'
<1>1. ~At(a, "idle") /\ UNCHANGED <<disk, left>> /\ left \subseteq left' /\ Abandon(a)
  BY DEF Report, At, Abandon
<1>2. a \in Actors
  BY <1>1, CopyFacts
<1>3. PICK t \in Stems : t = job[a].to
  BY <1>1, CopyFacts
<1>4. GoesOn(a, t, Idle)
  BY <1>1, <1>2, <1>3, AbandonFacts
<1>5. Still(a, Idle)
  BY <1>1, <1>2, <1>4, StillStep
<1>6. CopyInv(a)'
  BY <1>5, IdleFacts DEF Still, CopyInv, CopyPcs
<1>7. ManifestInv(t)' /\ SealInv(t)'
  BY <1>1, SealStands
<1> QED BY <1>3, <1>5, <1>6, <1>7, CopyStepInv DEF Still

\* Every step of a copy, and its cleanup.
LEMMA CopyInvSteps ==
    ASSUME IInv, NEW a \in Exporters,
           CopyCsv(a) \/ CopyAudit(a) \/ Rehash(a) \/ CopyManifest(a) \/ Undo(a) \/ Report(a)
    PROVE  ActorStep(a) /\ IInv'
<1> DEFINE p1 == "undo json"
           p2 == "undo raw"
           p3 == "undo csv"
           p4 == "failed"
<1>1. CASE Undo(a)
  <2>1. Remove(a, p1, "json", p2) \/ Remove(a, p2, "raw", p3) \/ Remove(a, p3, "csv", p4)
    BY <1>1 DEF Undo
  <2> QED BY <2>1, RemoveInv
<1> QED BY <1>1, CopyFileInv, RehashInv, ReportInv

-----------------------------------------------------------------------------
(* Beginning, and faults *)

\* A process whose job and files stay as they are.
LEMMA Unmoved ==
    ASSUME NEW b \in Actors, job'[b] = job[b], UNCHANGED <<disk, left>>
    PROVE  (RecordInv(b) => RecordInv(b)') /\ (CopyInv(b) => CopyInv(b)')
<1>1. /\ Own(b)' = Own(b)
      /\ \A k : Path(b, k)' = Path(b, k) /\ (Mine(b, k)' <=> Mine(b, k))
      /\ \A s, audit : HashOf(s, audit)' = HashOf(s, audit)
      /\ \A k : Durable(b, k)' <=> Durable(b, k)
  BY DEF Own, Mine, Path, Exists, HashOf, Durable
<1>2. RecordInv(b) => RecordInv(b)'
  BY <1>1 DEF RecordInv
<1>3. \A K : Copied(b, K)' <=> Copied(b, K)
  BY <1>1 DEF Copied
<1>4. CopyInv(b) => CopyInv(b)'
  <2>1. CopyTask(b) => CopyTask(b)'
    BY DEF CopyTask
  <2>2. CopyOwn(b) => CopyOwn(b)'
    BY <1>1 DEF CopyOwn
  <2>3. CopyContent(b) => CopyContent(b)'
    BY <1>1, <1>3 DEF CopyContent, Copied, Durable, HashOf, Path, Kept
  <2>4. CopyLeft(b) => CopyLeft(b)'
    BY <1>1 DEF CopyLeft
  <2> QED BY <2>1, <2>2, <2>3, <2>4 DEF CopyInv
<1> QED BY <1>2, <1>4

\* The manifests, when no file changes.
LEMMA UnmovedStems ==
    ASSUME IInv, UNCHANGED <<disk, left>>
    PROVE  \A s \in Stems : ManifestInv(s)' /\ SealInv(s)'
BY SealStands

\* A new run or copy has a number that no file bears.
LEMMA BeginInv ==
    ASSUME IInv, NEW a \in Actors, At(a, "idle"), NEW j \in Jobs, j.id = jobs + 1, j.to \in Stems, j.pc # "idle",
           job' = [job EXCEPT ![a] = j], jobs' = jobs + 1, UNCHANGED <<disk, left, faults>>,
           Own(a)' = {} /\ a \in Recorders => RecordInv(a)',
           Own(a)' = {} /\ a \in Exporters => CopyInv(a)'
    PROVE  IInv'
<1>1. TypeInv /\ IdInv
  BY DEF IInv
<1>2. job'[a] = j /\ (\A b \in Actors \ {a} : job'[b] = job[b]) /\ jobs \in Nat
  BY <1>1 DEF TypeInv
<1>3. TypeInv'
  BY <1>1 DEF TypeInv
<1>4. Own(a)' = {}
  <2>1. ASSUME NEW k \in Kinds, Mine(a, k)' PROVE FALSE
    <3>1. disk[<<j.to, k>>] # None /\ disk[<<j.to, k>>].by = jobs + 1
      BY <1>2, <2>1 DEF Mine, Exists, Path
    <3>2. <<j.to, k>> \in Stems \X Kinds
      OBVIOUS
    <3>3. disk[<<j.to, k>>].by <= jobs
      BY <1>1, <3>1, <3>2 DEF IdInv
    <3> QED BY <1>2, <3>1, <3>3
  <2> QED BY <2>1 DEF Own
<1>5. IdInv'
  <2>1. \A b \in Actors : IF At(b, "idle")' THEN job'[b].id = 0 ELSE job'[b].id \in 1..jobs' /\ job'[b].to \in Stems
    BY <1>1, <1>2 DEF IdInv, At
  <2>2. ASSUME NEW b \in Actors, NEW c \in Actors, b # c, job'[b].id = job'[c].id PROVE At(b, "idle")'
    <3>1. \A d \in Actors \ {a} : job'[d].id # jobs + 1
      <4> TAKE d \in Actors \ {a}
      <4>1. job[d].id = 0 \/ job[d].id \in 1..jobs
        BY <1>1 DEF IdInv
      <4> QED BY <1>2, <4>1
    <3>2. b # a /\ c # a
      BY <1>2, <2>2, <3>1
    <3> QED BY <1>1, <1>2, <2>2, <3>2 DEF IdInv, At
  <2>3. \A f \in Stems \X Kinds : disk'[f] # None => disk'[f].by <= jobs'
    <3> SUFFICES ASSUME NEW f \in Stems \X Kinds, disk[f] # None PROVE disk[f].by <= jobs + 1
      OBVIOUS
    <3>1. disk[f] \in Files
      BY <1>1 DEF TypeInv
    <3>2. disk[f].by \in Nat
      BY <3>1 DEF Files
    <3> QED BY <1>1, <1>2, <3>2 DEF IdInv
  <2> QED BY <2>1, <2>2, <2>3 DEF IdInv
<1>6. \A b \in Recorders : RecordInv(b)'
  <2> TAKE b \in Recorders
  <2>1. CASE b = a
    BY <1>4, <2>1
  <2>2. CASE b # a
    BY <1>2, <2>2, Unmoved DEF IInv, Actors
  <2> QED BY <2>1, <2>2
<1>7. \A b \in Exporters : CopyInv(b)'
  <2> TAKE b \in Exporters
  <2>1. CASE b = a
    BY <1>4, <2>1
  <2>2. CASE b # a
    BY <1>2, <2>2, Unmoved DEF IInv, Actors
  <2> QED BY <2>1, <2>2
<1> QED BY <1>3, <1>5, <1>6, <1>7, UnmovedStems DEF IInv

\* A run begins.
LEMMA RecordStart ==
    ASSUME IInv, NEW a \in Recorders, NEW s \in Stems, Record(a, s)
    PROVE  IInv' /\ UNCHANGED disk
<1> DEFINE I == [Idle EXCEPT !.pc = "csv", !.to = s]
           J == [I EXCEPT !.id = jobs + 1]
<1>1. At(a, "idle") /\ jobs' = jobs + 1 /\ job' = [job EXCEPT ![a] = J] /\ UNCHANGED <<disk, left, faults>>
  BY DEF Record, Start
<1>2. a \in Actors /\ a \notin Exporters /\ jobs \in Nat /\ job \in [Actors -> Jobs]
  BY RunFilesAssumption DEF Actors, IInv, TypeInv
<1>3. J \in Jobs /\ J.pc = "csv" /\ J.id = jobs + 1 /\ J.to = s
  <2>1. PICK x \in Jobs : x = Idle
    BY IdleFacts
  <2>2. PICK p \in Pcs : p = "csv"
    BY DEF Pcs
  <2>3. PICK i \in Nat : i = jobs + 1
    BY <1>2
  <2> DEFINE K == [[x EXCEPT !.pc = p, !.to = s] EXCEPT !.id = i]
  <2>4. K \in Jobs /\ K.pc = p /\ K.id = i /\ K.to = s
    BY DEF Jobs
  <2>5. J = K
    BY <2>1, <2>2, <2>3
  <2> HIDE DEF J, K
  <2> QED BY <2>2, <2>3, <2>4, <2>5
<1> HIDE DEF J, I
<1>4. Own(a)' = {} => RecordInv(a)'
  BY <1>1, <1>2, <1>3 DEF RecordInv, Made, Pcs
<1> QED BY <1>1, <1>2, <1>3, <1>4, BeginInv

\* A copy begins, with the sources open.
LEMMA SaveCopyStart ==
    ASSUME IInv, NEW a \in Exporters, NEW from \in Stems, NEW to \in Stems, SaveCopy(a, from, to)
    PROVE  IInv' /\ UNCHANGED disk
<1> DEFINE p == "open csv"
           says == disk[<<from, "json">>].says
           H == HashOf(from, says.audit)
           I == [Idle EXCEPT !.pc = p, !.to = to, !.from = from, !.says = says, !.hash = H]
           J == [I EXCEPT !.id = jobs + 1]
<1>1. /\ At(a, "idle") /\ jobs' = jobs + 1 /\ job' = [job EXCEPT ![a] = J] /\ UNCHANGED <<disk, left, faults>>
      /\ Completed(from) /\ \A k \in Kept(says) : Exists(from, k)
  BY DEF SaveCopy, Start
<1>2. a \in Actors /\ a \notin Recorders /\ jobs \in Nat /\ job \in [Actors -> Jobs]
  BY RunFilesAssumption DEF Actors, IInv, TypeInv
<1>3. says \in Says /\ says.audit \in BOOLEAN
  <2>1. ManifestInv(from)
    BY DEF IInv
  <2>2. says \in Says
    BY <1>1, <2>1 DEF ManifestInv, Completed
  <2> HIDE DEF says
  <2> QED BY <2>2 DEF Says
<1>4. H \in Hash /\ (says.audit <=> H.raw # None)
  <2>1. ASSUME NEW k \in Kept(says) PROVE disk[<<from, k>>].data \in Data
    <3>1. k \in Kinds /\ Exists(from, k)
      BY <1>1 DEF Kept, Outcome, Kinds
    <3>2. disk[<<from, k>>] \in Files
      BY <3>1, FileFacts DEF IInv
    <3> QED BY <3>2 DEF Files
  <2>2. "csv" \in Kept(says) /\ (says.audit => "raw" \in Kept(says))
    BY DEF Kept, Outcome
  <2>3. disk[<<from, "csv">>].data \in Data /\ (says.audit => disk[<<from, "raw">>].data \in Data)
    BY <2>1, <2>2
  <2> HIDE DEF says
  <2> QED BY <1>3, <2>3, NoneAssumption DEF HashOf, Hash
<1> HIDE DEF H, says
<1>5. /\ J \in Jobs /\ J.pc = p /\ J.id = jobs + 1 /\ J.to = to /\ J.says = says /\ J.hash = H /\ J.created = {}
  <2>1. PICK x \in Jobs : x = Idle /\ x.created = {}
    BY IdleFacts DEF Idle
  <2>2. PICK q \in CopyPcs : q = p
    BY DEF CopyPcs
  <2>3. PICK i \in Nat : i = jobs + 1
    BY <1>2
  <2>4. PICK m \in Says, h \in Hash : m = says /\ h = H
    BY <1>3, <1>4
  <2> DEFINE K == [[x EXCEPT !.pc = q, !.to = to, !.from = from, !.says = m, !.hash = h] EXCEPT !.id = i]
  <2>5. K \in Jobs /\ K.pc = q /\ K.id = i /\ K.to = to /\ K.says = m /\ K.hash = h /\ K.created = x.created
    BY DEF Jobs
  <2>6. J = K
    BY <2>1, <2>2, <2>3, <2>4
  <2> HIDE DEF J, K, p
  <2> QED BY <2>1, <2>2, <2>3, <2>4, <2>5, <2>6
<1> HIDE DEF J, I
<1>6. job'[a] = J
  BY <1>1, <1>2
<1>7. Own(a)' = {} => CopyInv(a)'
  <2> HAVE Own(a)' = {}
  <2>1. CopyMade(p, says) = {}
    BY DEF CopyMade
  <2>2. CopyTask(a)'
    BY <1>3, <1>4, <1>5, <1>6 DEF CopyTask
  <2>3. CopyOwn(a)'
    BY <1>5, <1>6, <2>1 DEF CopyOwn, Undoing
  <2> QED BY <1>5, <1>6, <2>2, <2>3 DEF CopyInv, CopyPcs, CopyContent, CopyLeft
<1>8. J.pc # "idle"
  BY <1>5
<1> HIDE DEF p
<1> QED BY <1>1, <1>2, <1>5, <1>7, <1>8, BeginInv

\* A killed process leaves its files behind.
LEMMA KilledInv ==
    ASSUME IInv, NEW a \in Actors, Killed(a)
    PROVE  IInv'
<1>1. UNCHANGED <<disk, left>> /\ jobs' = jobs /\ faults' = faults + 1 /\ job' = [job EXCEPT ![a] = Idle] /\ TypeInv /\ IdInv
  BY DEF Killed, IInv
<1>2. job'[a] = Idle /\ (\A b \in Actors \ {a} : job'[b] = job[b]) /\ job' \in [Actors -> Jobs] /\ jobs \in Nat
  BY <1>1, IdleFacts DEF TypeInv
<1>3. TypeInv'
  BY <1>1, <1>2 DEF TypeInv
<1>4. IdInv'
  <2>1. ASSUME NEW b \in Actors, NEW c \in Actors, b # c, job'[b].id = job'[c].id PROVE At(b, "idle")'
    <3>1. CASE b = a
      BY <1>2, <3>1, IdleFacts DEF At
    <3>2. CASE b # a /\ c = a
      BY <1>1, <1>2, <2>1, <3>2, IdleFacts DEF IdInv, At
    <3>3. CASE b # a /\ c # a
      BY <1>1, <1>2, <2>1, <3>3 DEF IdInv, At
    <3> QED BY <3>1, <3>2, <3>3
  <2> QED BY <1>1, <1>2, <2>1, IdleFacts DEF IdInv, At
<1>5. \A b \in Recorders : RecordInv(b)'
  <2> TAKE b \in Recorders
  <2>1. CASE b = a
    BY <1>2, <2>1, IdleRecorder
  <2>2. CASE b # a
    BY <1>1, <1>2, <2>2, Unmoved DEF IInv, Actors
  <2> QED BY <2>1, <2>2
<1>6. \A b \in Exporters : CopyInv(b)'
  <2> TAKE b \in Exporters
  <2>1. CASE b = a
    BY <1>2, <2>1, IdleFacts DEF CopyInv, CopyPcs
  <2>2. CASE b # a
    BY <1>1, <1>2, <2>2, Unmoved DEF IInv, Actors
  <2> QED BY <2>1, <2>2
<1> QED BY <1>1, <1>3, <1>4, <1>5, <1>6, UnmovedStems DEF IInv

\* A power failure takes what was not synced, and no seal rests on that.
LEMMA PowerLossInv ==
    ASSUME IInv, PowerLoss
    PROVE  IInv'
<1>1. PICK F \in SUBSET {f \in DOMAIN disk : disk[f] # None /\ ~disk[f].synced} :
        disk' = [f \in DOMAIN disk |-> IF f \in F THEN [disk[f] EXCEPT !.data = Torn] ELSE disk[f]]
  BY DEF PowerLoss
<1>2. job' = [a \in Actors |-> Idle] /\ UNCHANGED <<jobs, left>> /\ faults' = faults + 1 /\ TypeInv /\ IdInv
  BY DEF PowerLoss, IInv
<1>3. disk \in [Paths -> Files \cup {None}] /\ jobs \in Nat
  BY <1>2 DEF TypeInv, Paths
<1>4. ASSUME NEW f \in Paths
      PROVE  /\ disk'[f] \in Files \cup {None}
             /\ disk'[f] = None <=> disk[f] = None
             /\ disk'[f] # None => disk'[f].by = disk[f].by
             /\ disk'[f] # disk[f] => disk[f] # None /\ ~disk[f].synced /\ disk'[f].data = Torn
  <2>1. CASE f \in F
    <3>1. disk[f] \in Files /\ ~disk[f].synced /\ disk'[f] = [disk[f] EXCEPT !.data = Torn]
      BY <1>1, <1>3, <2>1
    <3>2. PICK x \in Files : x = disk[f]
      BY <3>1
    <3>3. PICK i : i = 0
      OBVIOUS
    <3>4. Torn \in Data
      BY <3>3, DataFacts
    <3>5. [x EXCEPT !.data = Torn] \in Files /\ [x EXCEPT !.data = Torn].by = x.by /\ [x EXCEPT !.data = Torn].data = Torn
      BY <3>4 DEF Files
    <3> QED BY <3>1, <3>2, <3>5, NoneAssumption
  <2>2. CASE f \notin F
    BY <1>1, <1>3, <2>2
  <2> QED BY <2>1, <2>2
<1>5. disk' \in [Paths -> Files \cup {None}]
  <2>1. DOMAIN disk = Paths
    BY <1>3
  <2>2. disk' = [f \in Paths |-> disk'[f]]
    BY <1>1, <2>1
  <2> QED BY <1>4, <2>2
<1>6. \A a \in Actors : job'[a] = Idle
  BY <1>2
<1>7. TypeInv'
  BY <1>2, <1>5, IdleFacts DEF TypeInv, Paths
<1>8. IdInv'
  <2>1. \A f \in Stems \X Kinds : disk'[f] # None => disk'[f].by <= jobs'
    BY <1>2, <1>4 DEF IdInv, Paths
  <2> QED BY <1>6, <2>1, IdleFacts DEF IdInv, At
<1>9. \A b \in Recorders : RecordInv(b)'
  BY <1>6, IdleRecorder DEF Actors
<1>10. \A b \in Exporters : CopyInv(b)'
  BY <1>6, IdleFacts DEF CopyInv, CopyPcs, Actors
<1>11. ASSUME NEW s \in Stems PROVE ManifestInv(s)' /\ SealInv(s)'
  <2>1. ManifestInv(s) /\ SealInv(s)
    BY DEF IInv
  <2>2. \A k \in Kinds : <<s, k>> \in Paths
    BY DEF Paths
  <2>3. disk'[<<s, "json">>] # disk[<<s, "json">>] => disk'[<<s, "json">>].data = Torn
    BY <1>4, <2>2 DEF Kinds
  <2>4. ManifestInv(s)'
    BY <2>1, <2>3 DEF ManifestInv, Exists
  <2>5. SealInv(s)'
    <3> SUFFICES ASSUME NEW m, m = disk'[<<s, "json">>], NEW says, says = m.says, NEW audit, audit = says.audit,
                        m # None, m.data # Torn, says.final, <<s, "json">> \notin left,
                        says.hash # None, ~says.error
                 PROVE  /\ \A k \in Kept(says) : disk'[<<s, k>>] # None /\ disk'[<<s, k>>].by = m.by
                        /\ \A k \in Kept(says) \ {"json"} : disk'[<<s, k>>].synced
                        /\ HashOf(s, audit)' = says.hash
      BY <1>2 DEF SealInv, Completed, Exists, Kept
    <3>1. m = disk[<<s, "json">>]
      BY <2>3
    <3>2. /\ \A k \in Kept(says) : disk[<<s, k>>] # None /\ disk[<<s, k>>].by = m.by
          /\ \A k \in Kept(says) \ {"json"} : disk[<<s, k>>].synced
          /\ HashOf(s, audit) = says.hash
      BY <2>1, <3>1 DEF SealInv, Completed, Exists
    <3>3. Kept(says) \subseteq Kinds /\ "csv" \in Kept(says) \ {"json"} /\ (audit => "raw" \in Kept(says) \ {"json"})
      BY DEF Kept, Outcome, Kinds
    <3>4. \A k \in Kept(says) : disk'[<<s, k>>] = disk[<<s, k>>]
      BY <1>4, <2>2, <3>1, <3>2, <3>3
    <3>5. HashOf(s, audit)' = HashOf(s, audit)
      BY <3>3, <3>4 DEF HashOf
    <3> QED BY <3>2, <3>4, <3>5
  <2> QED BY <2>4, <2>5
<1> QED BY <1>7, <1>8, <1>9, <1>10, <1>11 DEF IInv

-----------------------------------------------------------------------------
(* The theorems *)

\* Every step keeps the invariant; a process that changes a file goes on.
LEMMA NextInv ==
    ASSUME IInv, Next
    PROVE  IInv' /\ (UNCHANGED disk \/ faults' # faults \/ \E a \in Actors : ActorStep(a))
<1>1. ASSUME NEW a \in Recorders, NEW s \in Stems, Record(a, s) PROVE IInv' /\ UNCHANGED disk
  BY <1>1, RecordStart
<1>2. ASSUME NEW a \in Recorders,
             \/ CreateCsv(a) \/ CreateAudit(a) \/ CreateManifest(a) \/ Measure(a)
             \/ FinishCsv(a) \/ FinishAudit(a) \/ Hashes(a) \/ WriteTemporary(a) \/ Rename(a)
      PROVE  IInv' /\ ActorStep(a) /\ a \in Actors
  <2>1. CASE CreateCsv(a) \/ CreateAudit(a)
    BY <2>1, CreateInv DEF Actors
  <2>2. CASE CreateManifest(a)
    BY <2>2, CreateManifestInv DEF Actors
  <2>3. CASE Measure(a) \/ FinishCsv(a) \/ FinishAudit(a) \/ Hashes(a)
    BY <2>3, RecordingInv DEF Actors
  <2>4. CASE WriteTemporary(a)
    BY <2>4, WriteTemporaryInv DEF Actors
  <2>5. CASE Rename(a)
    BY <2>5, RenameInv DEF Actors
  <2> QED BY <1>2, <2>1, <2>2, <2>3, <2>4, <2>5
<1>3. ASSUME NEW a \in Exporters, NEW from \in Stems, NEW to \in Stems, SaveCopy(a, from, to)
      PROVE  IInv' /\ UNCHANGED disk
  BY <1>3, SaveCopyStart
<1>4. ASSUME NEW a \in Exporters,
             CopyCsv(a) \/ CopyAudit(a) \/ Rehash(a) \/ CopyManifest(a) \/ Undo(a) \/ Report(a)
      PROVE  IInv' /\ ActorStep(a) /\ a \in Actors
  BY <1>4, CopyInvSteps DEF Actors
<1>5. ASSUME NEW a \in Actors, Killed(a) PROVE IInv' /\ UNCHANGED disk
  BY <1>5, KilledInv DEF Killed
<1>6. CASE PowerLoss
  <2>1. faults' # faults
    <3>1. faults' = faults + 1 /\ faults < MaxFaults /\ faults \in Nat
      BY <1>6 DEF PowerLoss, IInv, TypeInv
    <3> QED BY <3>1
  <2> QED BY <1>6, <2>1, PowerLossInv
<1> QED BY <1>1, <1>2, <1>3, <1>4, <1>5, <1>6 DEF Next

\* What a reader of the directory, or a user who saved a copy, is told.
LEMMA Truth == IInv => RunsTrue
<1> SUFFICES ASSUME IInv PROVE RunsTrue
  OBVIOUS
<1>1. HashesTrue
  <2> SUFFICES ASSUME NEW s \in Stems, Completed(s), <<s, "json">> \notin left,
                      NEW says, says = disk[<<s, "json">>].says, says.hash # None, ~says.error
               PROVE  (\A k \in Kept(says) : Exists(s, k)) /\ HashOf(s, says.audit) = says.hash
    BY DEF HashesTrue
  <2>1. SealInv(s)
    BY DEF IInv
  <2> QED BY <2>1 DEF SealInv
<1>2. CopyWhole
  <2> SUFFICES ASSUME NEW a \in Exporters, NEW own,
                      own = {k \in Outcome : Exists(job[a].to, k) /\ disk[Path(a, k)].by = job[a].id}
               PROVE  /\ At(a, "saved") => own = Kept(job[a].says) /\ HashOf(job[a].to, job[a].says.audit) = job[a].hash
                      /\ At(a, "failed") => \A k \in own : Path(a, k) \in left
    BY DEF CopyWhole
  <2>1. \A k : k \in own <=> k \in Outcome /\ Mine(a, k)
    BY DEF Mine
  <2>2. Outcome \subseteq Kinds /\ Kept(job[a].says) \subseteq Outcome
    BY DEF Outcome, Kinds, Kept
  <2>3. CASE At(a, "saved")
    <3>1. /\ CopyTask(a) /\ CopyOwn(a) /\ CopyContent(a) /\ job[a].says.audit \in BOOLEAN
          /\ ~At(a, "idle") /\ ~At(a, "failed")
      <4>1. ~At(a, "idle") /\ ~At(a, "failed")
        BY <2>3 DEF At
      <4> QED BY <4>1, CopyFacts
    <3>2. Own(a) = Kept(job[a].says)
      <4>1. CopyMade("saved", job[a].says) = Kept(job[a].says)
        BY DEF CopyMade
      <4> QED BY <2>3, <3>1, <4>1 DEF CopyOwn, At, Undoing
    <3>3. own = Kept(job[a].says)
      BY <2>1, <2>2, <3>2 DEF Own
    <3>4. Copied(a, Kept(job[a].says))
      BY <2>3, <3>1 DEF CopyContent, At
    <3>5. HashOf(job[a].to, job[a].says.audit) = job[a].hash
      <4>1. disk[<<job[a].to, "csv">>].data = job[a].hash.csv
        BY <3>4 DEF Copied, Kept, Outcome, Path
      <4>2. job[a].says.audit => disk[<<job[a].to, "raw">>].data = job[a].hash.raw
        BY <3>4 DEF Copied, Kept, Outcome, Path
      <4>3. job[a].hash \in Hash /\ (job[a].says.audit <=> job[a].hash.raw # None)
        BY <3>1 DEF CopyTask
      <4>4. PICK h \in Hash : h = job[a].hash
        BY <4>3
      <4>5. h = [csv |-> h.csv, raw |-> h.raw]
        BY DEF Hash
      <4> QED BY <3>1, <4>1, <4>2, <4>3, <4>4, <4>5 DEF HashOf
    <3> QED BY <3>1, <3>3, <3>5
  <2>4. CASE At(a, "failed")
    <3>1. CopyLeft(a) /\ ~At(a, "saved")
      <4>1. ~At(a, "idle") /\ ~At(a, "saved")
        BY <2>4 DEF At
      <4> QED BY <4>1, CopyFacts
    <3> QED BY <2>1, <2>4, <3>1 DEF CopyLeft, At, Outcome
  <2> QED BY <2>3, <2>4
<1> QED BY <1>1, <1>2 DEF RunsTrue

\* The inductive invariant holds of every behaviour: `execute` and save_run_copy
\* know which files are theirs, and a final manifest vouches for durable ones.
THEOREM RunInvariant == Spec => []IInv
<1>1. IInv /\ UNCHANGED vars => IInv'
  <2> SUFFICES ASSUME IInv, UNCHANGED vars PROVE IInv'
    OBVIOUS
  <2>1. job' = job /\ jobs' = jobs /\ faults' = faults /\ UNCHANGED <<disk, left>>
    BY DEF vars
  <2>2. TypeInv'
    BY <2>1 DEF IInv, TypeInv
  <2>3. IdInv'
    BY <2>1 DEF IInv, IdInv, At
  <2>4. \A b \in Recorders : RecordInv(b)'
    BY <2>1, Unmoved DEF IInv, Actors
  <2>5. \A b \in Exporters : CopyInv(b)'
    BY <2>1, Unmoved DEF IInv, Actors
  <2> QED BY <2>1, <2>2, <2>3, <2>4, <2>5, UnmovedStems DEF IInv
<1>2. IInv /\ [Next]_vars => IInv'
  BY <1>1, NextInv
<1> QED BY InitInv, <1>2, PTL DEF Spec

\* Nobody is misled by the files that `execute` and save_run_copy leave behind,
\* whatever interleaves, fails, is killed or loses power.
THEOREM RunsNeverMislead == Spec => []RunsTrue
BY RunInvariant, Truth, PTL

\* A file is changed, replaced or removed only by the run or copy that created it
\* (create_new in CsvWriter, write_json_new and save_run_copy), or by a power failure.
THEOREM OnlyOwnFiles == Spec => OwnFilesOnly
<1> DEFINE Owned == \A f \in DOMAIN disk :
                      disk[f] # None /\ disk'[f] # disk[f] /\ faults' = faults =>
                        \E a \in Actors : job'[a] # job[a] /\ job[a].id = disk[f].by
<1>1. IInv /\ [Next]_vars => [Owned]_vars
  <2> SUFFICES ASSUME IInv, Next PROVE Owned
    OBVIOUS
  <2>1. DOMAIN disk = Paths
    BY DEF IInv, TypeInv, Paths
  <2>2. UNCHANGED disk \/ faults' # faults \/ \E a \in Actors : ActorStep(a)
    BY NextInv
  <2>3. ASSUME NEW a \in Actors, ActorStep(a) PROVE Owned
    BY <2>1, <2>3 DEF ActorStep
  <2> QED BY <2>2, <2>3
<1> QED BY RunInvariant, <1>1, PTL DEF Spec, OwnFilesOnly
=============================================================================
