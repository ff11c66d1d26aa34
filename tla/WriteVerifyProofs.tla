-------------------------- MODULE WriteVerifyProofs -------------------------
(***************************************************************************)
(* Machine-checked proofs about WriteVerify, for every number of           *)
(* concurrent calls, every set of requests, contracts, topics and values,  *)
(* and whatever the device and the connection do.                          *)
(***************************************************************************)
EXTENDS WriteVerify, ReadCacheProofs

\* The first element of every range.
LEMMA Firsts ==
  /\ 0 \in Age /\ 0 \in 0 .. PollLimit /\ 1 \in Nat \ {0}
  BY CacheAssumption, WriteAssumption DEF CacheAssumption, WriteAssumption, Age

\* The elements of a sequence.
LEMMA Elements ==
  ASSUME NEW S, NEW q \in Seq(S)
  PROVE  \A i \in DOMAIN q : q[i] \in S
  OBVIOUS

\* The one contract of a request, and its identity probes.
LEMMA ContractFacts ==
  ASSUME NEW r, HasContract(r)
  PROVE  /\ DOMAIN ContractOf(r).identity = 1 .. Len(ContractOf(r).identity)
         /\ Len(ContractOf(r).identity) \in Nat \ {0}
         /\ \A i \in DOMAIN ContractOf(r).identity :
              /\ ContractOf(r).identity[i].topic \in Topics
              /\ ContractOf(r).identity[i].expected \in Values
<1>1. ContractOf(r) \in Contracts
  BY DEF ContractOf, HasContract, Matches
<1> DEFINE ps == ContractOf(r).identity
<1>2. ps \in Seq([topic : Topics, expected : Values]) /\ Len(ps) > 0
  BY <1>1, WriteAssumption DEF WriteAssumption
<1>3. \A i \in DOMAIN ps : ps[i] \in [topic : Topics, expected : Values]
  <2> HIDE DEF ps
  <2> QED
    BY <1>2, Elements
<1>4. DOMAIN ps = 1 .. Len(ps) /\ Len(ps) \in Nat
  BY <1>2
<1> QED
  BY <1>2, <1>3, <1>4

\* The initial state satisfies the inductive invariant.
LEMMA InitInv == Init => Inv
<1> SUFFICES ASSUME Init PROVE Inv
  OBVIOUS
<1>1. CacheInv
  BY CacheInitInv DEF Init
<1>3. WriterTypeOK
  BY Firsts DEF Init, WriterTypeOK, PC, Awaiting, Reports, Fates
<1>4. GateInv /\ ProbeInv /\ ReadBackInv /\ FateInv /\ AnswerTellsOfPublication
  BY DEF Init, GateInv, ProbeInv, ReadBackInv, FateInv, AnswerTellsOfPublication, Before, After
<1> QED
  BY <1>1, <1>3, <1>4 DEF Inv

\* A call that returns with an answer that fits what became of its command.
LEMMA ReturnInv ==
  ASSUME Inv, NEW w \in Writers, NEW o \in Reports, Return(w, o), UNCHANGED <<cacheVars, cfg>>,
         NEW f \in Fates, fate' = [fate EXCEPT ![w] = f],
         o \in {"refused", "prompt", "raised", "failed"} => f = "none",
         o \in {"timeout", "drifted", "verified"} => f # "none"
  PROVE  Inv'
<1> USE DEF Inv, Return, Goto
<1>0. UNCHANGED <<connected, inbox, cache, serialSeen, heard, cfg>>
  BY DEF cacheVars
<1>1. WriterTypeOK'
  BY Firsts, <1>0 DEF WriterTypeOK, PC, Awaiting
<1>2. GateInv' /\ FateInv'
  BY <1>0 DEF GateInv, FateInv, WriterTypeOK, Before, After
<1>3. ProbeInv'
  BY <1>0 DEF ProbeInv, WriterTypeOK, IdentityKnown
<1>4. ReadBackInv' /\ AnswerTellsOfPublication'
  BY <1>0 DEF ReadBackInv, AnswerTellsOfPublication, WriterTypeOK
<1> QED
  BY <1>1, <1>2, <1>3, <1>4, CacheUnchanged

\* The gate and the waits before the identity check.
LEMMA EntryInv ==
  ASSUME Inv, NEW w \in Writers,
         \/ \E r \in Requests : Call(w, r)
         \/ Connected(w) \/ ConnectFails(w) \/ WarmedUp(w)
  PROVE  Inv'
<1> USE DEF Inv
<1>1. ASSUME NEW r \in Requests, Call(w, r) PROVE Inv'
  <2>1. CASE ValidateWriteOperation(cfg, r) # "allowed" \/ ~cfg.use_mqtt
    <3>1. ~(ValidateWriteOperation(cfg, r) = "allowed" /\ cfg.use_mqtt)
      BY <2>1
    <3>2. PICK o \in {"prompt", "refused"} : Return(w, o)
      BY <1>1, <3>1 DEF Call
    <3> QED
      BY <1>1, <3>2, ReturnInv DEF Call, Reports, Fates
  <2>2. CASE ValidateWriteOperation(cfg, r) = "allowed" /\ cfg.use_mqtt
    <3>1. /\ pc[w] = "idle" /\ pc' = [pc EXCEPT ![w] = "connect"]
          /\ request' = [request EXCEPT ![w] = r]
          /\ report' = [report EXCEPT ![w] = "none"]
          /\ fate' = [fate EXCEPT ![w] = "none"]
          /\ UNCHANGED <<connected, inbox, cache, serialSeen, heard, cfg, probe, polls, elapsed, checking>>
      BY <1>1, <2>2 DEF Call, Goto, timerVars, cacheVars
    <3>2. WriterTypeOK'
      BY <3>1 DEF WriterTypeOK, PC, Awaiting, Reports, Fates
    <3>3. GateInv' /\ FateInv'
      BY <2>2, <3>1 DEF GateInv, FateInv, WriterTypeOK, Before, After
    <3>4. ProbeInv'
      BY <3>1 DEF ProbeInv, WriterTypeOK, IdentityKnown
    <3>5. ReadBackInv' /\ AnswerTellsOfPublication'
      BY <3>1 DEF ReadBackInv, AnswerTellsOfPublication, WriterTypeOK
    <3> QED
      BY <3>1, <3>2, <3>3, <3>4, <3>5, CacheUnchanged DEF cacheVars
  <2> QED
    BY <2>1, <2>2
<1>2. ASSUME NEW l \in {"warmup", "probe"}, Continue(w, l), pc[w] \in {"connect", "warmup"},
             l = "probe" => HasContract(request[w]),
             UNCHANGED <<cacheVars, cfg, probe, polls, elapsed, checking, fate>>
      PROVE  Inv'
  <2>1. /\ pc' = [pc EXCEPT ![w] = l] /\ UNCHANGED <<report, request>>
        /\ UNCHANGED <<connected, inbox, cache, serialSeen, heard, cfg, probe, polls, elapsed, checking, fate>>
    BY <1>2 DEF Continue, Goto, cacheVars
  <2>2. WriterTypeOK'
    BY <2>1 DEF WriterTypeOK, PC, Awaiting
  <2>3. GateInv' /\ FateInv'
    BY <1>2, <2>1 DEF GateInv, FateInv, WriterTypeOK, Before, After
  <2>4. ProbeInv'
    <3>1. l = "probe" => 1 \in DOMAIN ContractOf(request[w]).identity
      BY <1>2, ContractFacts
    <3>2. probe[w] = 1 /\ \A i \in DOMAIN ContractOf(request[w]).identity : l = "probe" => ~(i < 1)
      BY <1>2, ContractFacts DEF ProbeInv
    <3> QED
      BY <1>2, <2>1, <3>1, <3>2 DEF ProbeInv, WriterTypeOK, IdentityKnown
  <2>5. ReadBackInv' /\ AnswerTellsOfPublication'
    BY <1>2, <2>1 DEF ReadBackInv, AnswerTellsOfPublication, WriterTypeOK
  <2> QED
    BY <2>1, <2>2, <2>3, <2>4, <2>5, CacheUnchanged DEF cacheVars
<1>3. ASSUME NEW o \in {"raised", "refused"}, Return(w, o), UNCHANGED <<cacheVars, cfg, fate>>,
             pc[w] \in {"connect", "warmup"}
      PROVE  Inv'
  <2>1. fate' = [fate EXCEPT ![w] = "none"]
    BY <1>3 DEF FateInv, Before, WriterTypeOK
  <2> QED
    BY <1>3, <2>1, ReturnInv DEF Reports, Fates
<1>4. CASE Connected(w)
  BY <1>2, <1>4 DEF Connected, timerVars
<1>5. CASE ConnectFails(w)
  BY <1>3, <1>5 DEF ConnectFails
<1>6. CASE WarmedUp(w)
  BY <1>2, <1>3, <1>6 DEF WarmedUp, timerVars
<1> QED
  BY <1>1, <1>4, <1>5, <1>6

\* A probe that holds was received within the staleness limit.
LEMMA KnownProbe ==
  ASSUME Inv, NEW w \in Writers, NEW p, p.topic \in Topics, p.expected \in Values, ProbeHolds(p)
  PROVE  heard[p.topic][p.expected] <= StaleAfter + checking[w]
<1>1. heard[p.topic][p.expected] \in Age /\ checking[w] \in Age
  BY DEF Inv, CacheInv, CacheTypeOK, WriterTypeOK
<1>2. cache[p.topic].age \in Age
  BY DEF Inv, CacheInv, CacheTypeOK, Entry, ProbeHolds
<1>3. heard[p.topic][p.expected] <= cache[p.topic].age /\ cache[p.topic].age <= StaleAfter
  BY DEF Inv, CacheInv, AgeIsHonest, ProbeHolds
<1> QED
  BY <1>1, <1>2, <1>3, WriteAssumption DEF WriteAssumption, Age

\* One step of the identity check, before the publication or before a success.
LEMMA CheckInv ==
  ASSUME Inv, NEW w \in Writers, Probe(w) \/ Requalify(w)
  PROVE  Inv'
<1> USE DEF Inv
<1> DEFINE k == ContractOf(request[w])
           p == k.identity[probe[w]]
           last == probe[w] = Len(k.identity)
<1>0. pc[w] \in {"probe", "reprobe"} /\ UNCHANGED <<cacheVars, cfg, fate>>
  BY DEF Probe, Requalify, CheckStep
<1>1. /\ HasContract(request[w]) /\ request[w] \in Requests
      /\ pc[w] = "probe" => fate[w] = "none" /\ Before(w)
      /\ pc[w] = "reprobe" => fate[w] # "none" /\ After(w)
  BY <1>0 DEF GateInv, FateInv, Before, After
<1>2. /\ DOMAIN k.identity = 1 .. Len(k.identity)
      /\ Len(k.identity) \in Nat \ {0}
      /\ probe[w] \in DOMAIN k.identity /\ probe[w] \in Nat
      /\ p.topic \in Topics /\ p.expected \in Values
  BY <1>0, <1>1, ContractFacts DEF ProbeInv, WriterTypeOK
<1>3. ProbeHolds(p) => heard[p.topic][p.expected] <= StaleAfter + checking[w]
  BY <1>2, KnownProbe
<1>4. \/ ProbeHolds(p) /\ ~last /\ probe' = [probe EXCEPT ![w] = @ + 1]
         /\ UNCHANGED <<pc, request, polls, report, timerVars>>
      \/ /\ pc[w] = "probe" /\ ProbeHolds(p) /\ last /\ ValueQualified(k, request[w])
         /\ Continue(w, "stamp") /\ probe' = [probe EXCEPT ![w] = 1]
         /\ UNCHANGED <<polls, timerVars>>
      \/ pc[w] = "probe" /\ Return(w, "refused")
      \/ pc[w] = "reprobe" /\ (Return(w, "verified") \/ Return(w, "drifted"))
  BY DEF Probe, Requalify, CheckStep
<1>5. CASE ProbeHolds(p) /\ ~last /\ probe' = [probe EXCEPT ![w] = @ + 1]
           /\ UNCHANGED <<pc, request, polls, report, timerVars>>
  <2>1. /\ UNCHANGED <<pc, request, polls, report, elapsed, checking>>
        /\ UNCHANGED <<connected, inbox, cache, serialSeen, heard, cfg, fate>>
    BY <1>0, <1>5 DEF timerVars, cacheVars
  <2>2. WriterTypeOK'
    BY <1>2, <1>5, <2>1 DEF WriterTypeOK
  <2>3. GateInv' /\ FateInv' /\ ReadBackInv' /\ AnswerTellsOfPublication'
    BY <2>1 DEF GateInv, FateInv, ReadBackInv, AnswerTellsOfPublication, Before, After
  <2>4. ProbeInv'
    <3>1. /\ probe'[w] = probe[w] + 1
          /\ \A u \in Writers \ {w} : probe'[u] = probe[u]
      BY <1>5 DEF WriterTypeOK
    <3>2. probe'[w] \in DOMAIN k.identity
      BY <1>2, <1>5, <3>1
    <3>3. ASSUME NEW i \in DOMAIN k.identity, i < probe'[w]
          PROVE  heard[k.identity[i].topic][k.identity[i].expected] <= StaleAfter + checking[w]
      <4>1. CASE i < probe[w]
        BY <1>0, <4>1 DEF ProbeInv
      <4>2. CASE i = probe[w]
        BY <1>3, <1>5, <4>2
      <4> QED
        BY <1>2, <3>1, <3>3, <4>1, <4>2
    <3> QED
      BY <1>0, <2>1, <3>1, <3>2, <3>3 DEF ProbeInv, IdentityKnown
  <2> QED
    BY <2>1, <2>2, <2>3, <2>4, CacheUnchanged DEF cacheVars
<1>6. CASE /\ pc[w] = "probe" /\ ProbeHolds(p) /\ last /\ ValueQualified(k, request[w])
           /\ Continue(w, "stamp") /\ probe' = [probe EXCEPT ![w] = 1]
           /\ UNCHANGED <<polls, timerVars>>
  <2>1. /\ pc' = [pc EXCEPT ![w] = "stamp"]
        /\ UNCHANGED <<request, polls, report, elapsed, checking>>
        /\ UNCHANGED <<connected, inbox, cache, serialSeen, heard, cfg, fate>>
    BY <1>0, <1>6 DEF timerVars, cacheVars, Continue, Goto
  <2>2. WriterTypeOK'
    BY <1>2, <1>6, <2>1, Firsts DEF WriterTypeOK, PC, Awaiting
  <2>3. GateInv' /\ FateInv'
    BY <1>1, <1>6, <2>1 DEF GateInv, FateInv, Before, After, WriterTypeOK
  <2>4. ReadBackInv' /\ AnswerTellsOfPublication'
    BY <2>1 DEF ReadBackInv, AnswerTellsOfPublication, WriterTypeOK
  <2>5. IdentityKnown(w)
    <3> SUFFICES ASSUME NEW i \in DOMAIN k.identity
                 PROVE  heard[k.identity[i].topic][k.identity[i].expected] <= StaleAfter + checking[w]
      BY DEF IdentityKnown
    <3>1. CASE i < probe[w]
      BY <1>0, <3>1 DEF ProbeInv
    <3>2. CASE i = probe[w]
      BY <1>3, <1>6, <3>2
    <3> QED
      BY <1>2, <1>6, <3>1, <3>2
  <2>6. ProbeInv'
    BY <1>6, <2>1, <2>5 DEF ProbeInv, IdentityKnown, WriterTypeOK
  <2> QED
    BY <2>1, <2>2, <2>3, <2>4, <2>6, CacheUnchanged DEF cacheVars
<1>7. CASE pc[w] = "probe" /\ Return(w, "refused")
  <2>1. fate' = [fate EXCEPT ![w] = "none"]
    BY <1>0, <1>1, <1>7 DEF WriterTypeOK
  <2> QED
    BY <1>0, <1>7, <2>1, ReturnInv DEF Reports, Fates
<1>8. CASE pc[w] = "reprobe" /\ (Return(w, "verified") \/ Return(w, "drifted"))
  <2>1. fate' = [fate EXCEPT ![w] = fate[w]] /\ fate[w] \in Fates \ {"none"}
    BY <1>0, <1>1, <1>8 DEF WriterTypeOK
  <2> QED
    BY <1>0, <1>8, <2>1, ReturnInv DEF Reports
<1> QED
  BY <1>4, <1>5, <1>6, <1>7, <1>8

\* A read-back is a live notification received after written_at.
LEMMA ReadBackIsLive ==
  ASSUME Inv, NEW w \in Writers, request[w] \in Requests, ReadBack(w)
  PROVE  /\ ValueOf(request[w]) \in Values
         /\ heard[request[w].target][ValueOf(request[w])] <= elapsed[w]
<1> DEFINE t == request[w].target
<1>1. t \in Topics /\ cache[t] # NoEntry /\ cache[t].age <= elapsed[w]
      /\ cache[t].value = ValueOf(request[w])
  BY WriteAssumption DEF WriteAssumption, ReadBack
<1>2. cache[t].value \in Values /\ cache[t].age \in Age
  BY <1>1 DEF Inv, CacheInv, CacheTypeOK, Entry
<1>3. heard[t][cache[t].value] \in Age /\ elapsed[w] \in Age
  BY <1>1, <1>2 DEF Inv, CacheInv, CacheTypeOK, WriterTypeOK
<1>4. heard[t][cache[t].value] <= cache[t].age
  BY <1>1 DEF Inv, CacheInv, AgeIsHonest
<1> HIDE DEF t
<1>5. heard[t][cache[t].value] <= elapsed[w]
  BY <1>1, <1>2, <1>3, <1>4 DEF Age
<1> QED
  BY <1>1, <1>2, <1>5 DEF t

\* The publication and the verification loop.
LEMMA VerifyInv ==
  ASSUME Inv, NEW w \in Writers,
         Publish(w) \/ PublishFails(w) \/ Poll(w) \/ GiveUp(w) \/ Cancel(w)
  PROVE  Inv'
<1> USE DEF Inv
<1>1. CASE Publish(w)
  <2>1. PICK f \in {"sent", "dropped"} : fate' = [fate EXCEPT ![w] = f]
    BY <1>1 DEF Publish
  <2>2. /\ pc[w] = "publish" /\ pc' = [pc EXCEPT ![w] = "poll"]
        /\ checking' = [checking EXCEPT ![w] = 0]
        /\ UNCHANGED <<request, probe, polls, report, elapsed, cfg>>
        /\ UNCHANGED <<connected, inbox, cache, serialSeen, heard>>
    BY <1>1 DEF Publish, Continue, Goto, cacheVars
  <2>3. WriterTypeOK'
    BY <2>1, <2>2, Firsts DEF WriterTypeOK, Fates, PC, Awaiting
  <2>4. GateInv' /\ FateInv'
    BY <2>1, <2>2 DEF GateInv, FateInv, Before, After, WriterTypeOK
  <2>5. ReadBackInv' /\ AnswerTellsOfPublication'
    BY <2>1, <2>2 DEF ReadBackInv, AnswerTellsOfPublication, WriterTypeOK, FateInv
  <2>6. ProbeInv'
    BY <2>1, <2>2 DEF ProbeInv, IdentityKnown, WriterTypeOK
  <2> QED
    BY <2>3, <2>4, <2>5, <2>6, <2>2, CacheUnchanged DEF cacheVars
<1>2. CASE PublishFails(w)
  <2>1. fate' = [fate EXCEPT ![w] = "none"]
    BY <1>2 DEF PublishFails, FateInv, Before, WriterTypeOK
  <2> QED
    BY <1>2, <2>1, ReturnInv DEF PublishFails, Reports, Fates
<1>3. ASSUME NEW l \in {"reprobe", "sleep"}, pc[w] \in {"poll", "sleep"},
             pc' = [pc EXCEPT ![w] = l], l = "reprobe" => ReadBack(w), polls' \in [Writers -> 0 .. PollLimit],
             UNCHANGED <<request, report, cacheVars, cfg, probe, timerVars, fate>>
      PROVE  Inv'
  <2>1. /\ UNCHANGED <<request, report, cfg, probe, elapsed, checking, fate>>
        /\ UNCHANGED <<connected, inbox, cache, serialSeen, heard>>
    BY <1>3 DEF timerVars, cacheVars
  <2>2. WriterTypeOK'
    BY <1>3, <2>1 DEF WriterTypeOK, PC, Awaiting
  <2>3. GateInv' /\ FateInv' /\ AnswerTellsOfPublication'
    BY <1>3, <2>1 DEF GateInv, FateInv, AnswerTellsOfPublication, Before, After, WriterTypeOK
  <2>4. HasContract(request[w]) /\ request[w] \in Requests
    BY <1>3 DEF GateInv, After
  <2>5. ProbeInv'
    <3>1. /\ 1 \in DOMAIN ContractOf(request[w]).identity
          /\ \A i \in DOMAIN ContractOf(request[w]).identity : ~(i < 1)
      BY <2>4, ContractFacts
    <3>2. probe[w] = 1
      BY <1>3 DEF ProbeInv
    <3> QED
      BY <1>3, <2>1, <3>1, <3>2 DEF ProbeInv, IdentityKnown, WriterTypeOK
  <2>6. ReadBackInv'
    <3>1. l = "reprobe" => /\ ValueOf(request[w]) \in Values
                           /\ heard[request[w].target][ValueOf(request[w])] <= elapsed[w]
      BY <1>3, <2>4, ReadBackIsLive
    <3> QED
      BY <1>3, <2>1, <3>1 DEF ReadBackInv, WriterTypeOK
  <2> QED
    BY <2>1, <2>2, <2>3, <2>5, <2>6, CacheUnchanged DEF cacheVars
<1>4. CASE Poll(w)
  <2>1. pc[w] \in {"poll", "sleep"} /\ polls[w] < PollLimit
    BY <1>4 DEF Poll, PollsLeft
  <2>2. polls' \in [Writers -> 0 .. PollLimit]
    <3>1. PollLimit \in Nat
      BY WriteAssumption DEF WriteAssumption
    <3>2. polls[w] + 1 \in 0 .. PollLimit
      BY <2>1, <3>1 DEF WriterTypeOK
    <3> QED
      BY <1>4, <3>2 DEF Poll, WriterTypeOK
  <2> QED
    BY <1>3, <1>4, <2>1, <2>2 DEF Poll, Continue, Goto
<1>5. CASE GiveUp(w)
  <2>1. fate' = [fate EXCEPT ![w] = fate[w]] /\ fate[w] \in Fates \ {"none"}
    BY <1>5 DEF GiveUp, FateInv, After, WriterTypeOK
  <2> QED
    BY <1>5, <2>1, ReturnInv DEF GiveUp, Reports
<1>6. CASE Cancel(w)
  <2>1. fate' = [fate EXCEPT ![w] = fate[w]] /\ fate[w] \in Fates
    BY <1>6 DEF Cancel, WriterTypeOK
  <2> QED
    BY <1>6, <2>1, ReturnInv DEF Cancel, Reports
<1> QED
  BY <1>1, <1>2, <1>4, <1>5, <1>6

\* What a call knows while it takes no step and time passes: its limits grow as
\* fast as the ages they bound.
LEMMA KnowledgeAges ==
  ASSUME Inv, TimePasses, NEW w \in Writers, NEW t \in Topics, NEW v \in Values
  PROVE  /\ heard[t][v] <= elapsed[w] => heard'[t][v] <= Older(elapsed[w])
         /\ heard[t][v] <= StaleAfter + checking[w] =>
              heard'[t][v] <= StaleAfter + Older(checking[w])
<1> DEFINE a == heard[t][v]
           b == heard'[t][v]
           e == elapsed[w]
           c == checking[w]
<1>1. a \in Age /\ b \in Age /\ e \in Age /\ c \in Age /\ b <= Older(a)
  BY DEF Inv, CacheInv, CacheTypeOK, WriterTypeOK, TimePasses
<1> HIDE DEF a, b, e, c
<1>2. /\ a <= e => b <= Older(e)
      /\ a <= StaleAfter + c => b <= StaleAfter + Older(c)
  BY <1>1, CacheAssumption, WriteAssumption DEF CacheAssumption, WriteAssumption, Age, Older
<1> QED
  BY <1>2 DEF a, b, e, c

\* Time passes: the clock, a message received, or written_at read.
LEMMA TimeInv ==
  ASSUME Inv, TimePasses, CacheInv',
         UNCHANGED <<cfg, request, probe, polls, report, fate>>,
         \/ UNCHANGED pc
         \/ \E w \in Writers : pc[w] = "stamp" /\ pc' = [pc EXCEPT ![w] = "publish"],
         elapsed' \in [Writers -> Age], checking' \in [Writers -> Age],
         \A w \in Writers : /\ pc[w] = "reprobe" => elapsed'[w] = Older(elapsed[w])
                            /\ Checking(w) => checking'[w] = Older(checking[w])
  PROVE  Inv'
<1> USE DEF Inv
<1>1. WriterTypeOK'
  BY DEF WriterTypeOK, PC, Awaiting
<1>2. \A w \in Writers : \/ pc'[w] = pc[w]
                         \/ pc[w] = "stamp" /\ pc'[w] = "publish"
  BY DEF WriterTypeOK
<1>3. GateInv' /\ FateInv' /\ AnswerTellsOfPublication'
  BY <1>2 DEF GateInv, FateInv, AnswerTellsOfPublication, Before, After
<1>4. ASSUME NEW w \in Writers, pc[w] \in {"probe", "reprobe", "stamp", "publish"},
             NEW i \in DOMAIN ContractOf(request[w]).identity,
             LET p == ContractOf(request[w]).identity[i] IN
             heard[p.topic][p.expected] <= StaleAfter + checking[w]
      PROVE  LET p == ContractOf(request[w]).identity[i] IN
             heard'[p.topic][p.expected] <= StaleAfter + checking'[w]
  <2>1. HasContract(request[w]) /\ checking'[w] = Older(checking[w])
    BY <1>4 DEF GateInv, After, Checking
  <2> QED
    BY <1>4, <2>1, ContractFacts, KnowledgeAges
<1>5. ProbeInv'
  <2> SUFFICES ASSUME NEW w \in Writers
               PROVE  /\ pc'[w] \in {"probe", "reprobe"} =>
                           /\ probe[w] \in DOMAIN ContractOf(request[w]).identity
                           /\ \A i \in DOMAIN ContractOf(request[w]).identity :
                                i < probe[w] =>
                                  LET p == ContractOf(request[w]).identity[i] IN
                                  heard'[p.topic][p.expected] <= StaleAfter + checking'[w]
                      /\ pc'[w] \in {"stamp", "publish"} =>
                           \A i \in DOMAIN ContractOf(request[w]).identity :
                             LET p == ContractOf(request[w]).identity[i] IN
                             heard'[p.topic][p.expected] <= StaleAfter + checking'[w]
                      /\ pc'[w] \notin {"probe", "reprobe"} => probe[w] = 1
    BY DEF ProbeInv, IdentityKnown
  <2>1. CASE pc[w] \in {"probe", "reprobe"}
    BY <1>2, <1>4, <2>1 DEF ProbeInv
  <2>2. CASE pc[w] \in {"stamp", "publish"}
    BY <1>2, <1>4, <2>2 DEF ProbeInv, IdentityKnown
  <2>3. CASE pc[w] \notin {"probe", "reprobe", "stamp", "publish"}
    BY <1>2, <2>3 DEF ProbeInv
  <2> QED
    BY <2>1, <2>2, <2>3
<1>6. ReadBackInv'
  <2> SUFFICES ASSUME NEW w \in Writers, pc[w] = "reprobe"
               PROVE  /\ ValueOf(request[w]) \in Values
                      /\ heard'[request[w].target][ValueOf(request[w])] <= elapsed'[w]
    BY <1>2 DEF ReadBackInv, ValueOf
  <2>1. request[w] \in Requests /\ elapsed'[w] = Older(elapsed[w])
    BY DEF GateInv, After
  <2>2. request[w].target \in Topics
    BY <2>1, WriteAssumption DEF WriteAssumption
  <2> QED
    BY <2>1, <2>2, KnowledgeAges DEF ReadBackInv
<1> QED
  BY <1>1, <1>3, <1>5, <1>6

\* The network thread, the decoder and the clock.
LEMMA EnvironmentInv ==
  ASSUME Inv, CacheStep, UNCHANGED <<cfg, callVars, fate>>
  PROVE  Inv'
<1>0. UNCHANGED <<cfg, pc, request, probe, polls, report, fate>> /\ CacheInv
  BY DEF callVars, Inv
<1>1. CASE (SessionUp \/ SessionDown \/ Retire \/ HandleMessage) /\ UNCHANGED timerVars
  <2>1. CacheInv'
    BY <1>0, <1>1, SessionStep, HandleMessageStep
  <2>2. UNCHANGED <<heard, elapsed, checking>>
    BY <1>1 DEF timerVars, SessionUp, SessionDown, Retire, HandleMessage
  <2>3. WriterTypeOK' /\ GateInv' /\ FateInv' /\ AnswerTellsOfPublication'
    BY <1>0, <2>2 DEF Inv, WriterTypeOK, GateInv, FateInv, AnswerTellsOfPublication, Before, After
  <2>4. ProbeInv' /\ ReadBackInv'
    BY <1>0, <2>2 DEF Inv, ProbeInv, ReadBackInv, IdentityKnown
  <2> QED
    BY <2>1, <2>3, <2>4 DEF Inv
<1>2. CASE (Ageing \/ \E m \in Notices : OnMessage(m)) /\ AgedTimers
  <2>1. CacheInv' /\ TimePasses
    BY <1>0, <1>2, AgeingStep, OnMessageStep, WriteAssumption DEF WriteAssumption
  <2>2. \A w \in Writers : Older(elapsed[w]) \in Age /\ Older(checking[w]) \in Age
    BY OlderFacts DEF Inv, WriterTypeOK
  <2>3. /\ elapsed' \in [Writers -> Age] /\ checking' \in [Writers -> Age]
        /\ \A w \in Writers : /\ pc[w] = "reprobe" => elapsed'[w] = Older(elapsed[w])
                              /\ Checking(w) => checking'[w] = Older(checking[w])
    BY <1>2, <2>2, Firsts DEF AgedTimers, Written
  <2> QED
    BY <1>0, <2>1, <2>3, TimeInv
<1> QED
  BY <1>1, <1>2 DEF CacheStep

\* written_at is read.
LEMMA StampInv ==
  ASSUME Inv, NEW w \in Writers, Stamp(w)
  PROVE  Inv'
<1>1. CacheInv' /\ TimePasses
  BY AgeingStep DEF Inv, Stamp
<1>2. \A u \in Writers : Older(elapsed[u]) \in Age /\ Older(checking[u]) \in Age
  BY OlderFacts DEF Inv, WriterTypeOK
<1>3. /\ elapsed' \in [Writers -> Age] /\ checking' \in [Writers -> Age]
      /\ \A u \in Writers : /\ pc[u] = "reprobe" => elapsed'[u] = Older(elapsed[u])
                            /\ Checking(u) => checking'[u] = Older(checking[u])
  BY <1>2, Firsts DEF Stamp, Written
<1> QED
  BY <1>1, <1>3, TimeInv DEF Stamp, Continue, Goto

\* Every step preserves the inductive invariant.
LEMMA NextInv == Inv /\ [Next]_vars => Inv'
<1> SUFFICES ASSUME Inv, [Next]_vars PROVE Inv'
  OBVIOUS
<1>1. CASE CacheStep /\ UNCHANGED <<cfg, callVars, fate>>
  BY <1>1, EnvironmentInv
<1>2. ASSUME NEW w \in Writers, (\E r \in Requests : Call(w, r)) \/ CallStep(w) \/ Cancel(w)
      PROVE  Inv'
  BY <1>2, EntryInv, CheckInv, StampInv, VerifyInv DEF CallStep
<1>3. CASE UNCHANGED vars
  <2>1. /\ UNCHANGED <<cacheVars, heard, cfg, pc, request, probe, polls, report>>
        /\ UNCHANGED <<elapsed, checking, fate>>
    BY <1>3 DEF vars, cacheVars, writeVars, callVars, timerVars
  <2>2. WriterTypeOK' /\ GateInv' /\ FateInv' /\ AnswerTellsOfPublication'
    BY <2>1 DEF Inv, WriterTypeOK, GateInv, FateInv, AnswerTellsOfPublication, Before, After
  <2>3. ProbeInv' /\ ReadBackInv'
    BY <2>1 DEF Inv, ProbeInv, ReadBackInv, IdentityKnown
  <2> QED
    BY <2>1, <2>2, <2>3, CacheUnchanged DEF Inv
<1> QED
  BY <1>1, <1>2, <1>3 DEF Next

\* Only Publish decides what becomes of a command.
LEMMA SendsOnlyByPublish ==
  ASSUME Inv, Next, NEW w \in Writers, fate[w] = "none", fate'[w] # "none"
  PROVE  Publish(w)
<1>1. ~UNCHANGED fate
  OBVIOUS
<1>2. PICK u \in Writers : (\E r \in Requests : Call(u, r)) \/ CallStep(u) \/ Cancel(u)
  BY <1>1 DEF Next
<1>3. ~(\E r \in Requests : Call(u, r))
  BY DEF Call, Inv, WriterTypeOK
<1>4. Publish(u)
  BY <1>1, <1>2, <1>3 DEF CallStep, Connected, ConnectFails, WarmedUp, Probe, Requalify, CheckStep,
     Stamp, PublishFails, Poll, GiveUp, Cancel
<1>5. u = w
  BY <1>4 DEF Publish, Inv, WriterTypeOK
<1> QED
  BY <1>4, <1>5

\* Only the last step of the second identity check returns a success.
LEMMA VerifiesOnlyByRequalify ==
  ASSUME Inv, Next, NEW w \in Writers, pc[w] # "idle", pc'[w] = "idle", report'[w] = "verified"
  PROVE  /\ pc[w] = "reprobe"
         /\ ProbeHolds(ContractOf(request[w]).identity[probe[w]])
         /\ probe[w] = Len(ContractOf(request[w]).identity)
<1>0. report[w] # "verified" /\ pc \in [Writers -> PC] /\ report \in [Writers -> Reports]
  BY DEF Inv, FateInv, WriterTypeOK
<1>1. PICK u \in Writers : (\E r \in Requests : Call(u, r)) \/ CallStep(u) \/ Cancel(u)
  BY DEF Next, callVars
<1>2. \A o \in Reports : Return(u, o) => u = w /\ o = "verified"
  BY <1>0 DEF Return, Goto
<1>3. ~Return(u, "raised") /\ ~Return(u, "refused") /\ ~Return(u, "prompt") /\ ~Return(u, "failed")
      /\ ~Return(u, "timeout") /\ ~Return(u, "drifted") /\ ~Return(u, "none")
  BY <1>2 DEF Reports
<1>4. \A l : ~Continue(u, l) /\ ~UNCHANGED report
  BY <1>0 DEF Continue
<1>5. ~(\E r \in Requests : Call(u, r))
  <2> SUFFICES ASSUME NEW r \in Requests, Call(u, r) PROVE FALSE
    OBVIOUS
  <2>1. Return(u, "prompt") \/ Return(u, "refused") \/ report' = [report EXCEPT ![u] = "none"]
    BY DEF Call
  <2> QED
    BY <1>0, <1>3, <2>1
<1>6. ~Connected(u) /\ ~ConnectFails(u) /\ ~WarmedUp(u) /\ ~Stamp(u) /\ ~Publish(u)
      /\ ~PublishFails(u) /\ ~Poll(u) /\ ~GiveUp(u) /\ ~Cancel(u)
  BY <1>3, <1>4 DEF Connected, ConnectFails, WarmedUp, Stamp, Publish, PublishFails, Poll, GiveUp, Cancel
<1>7. ~Probe(u)
  BY <1>3, <1>4 DEF Probe, CheckStep
<1>8. Requalify(u)
  BY <1>1, <1>5, <1>6, <1>7 DEF CallStep
<1>9. /\ pc[u] = "reprobe" /\ Return(u, "verified")
      /\ ProbeHolds(ContractOf(request[u]).identity[probe[u]])
      /\ probe[u] = Len(ContractOf(request[u]).identity)
  BY <1>3, <1>4, <1>8 DEF Requalify, CheckStep
<1>10. u = w
  BY <1>2, <1>9 DEF Reports
<1> QED
  BY <1>9, <1>10

-----------------------------------------------------------------------------

\* The inductive invariant holds in every reachable state: what the gate decided,
\* what the identity check has read, the evidence behind a read-back and what
\* became of a command stay true while other calls, the network thread and the
\* decoder run.
THEOREM Invariance == Spec => []Inv
  BY InitInv, NextInv, PTL DEF Spec

\* Every state of a write call and of the cache is well typed.
THEOREM TypeCorrect == Spec => []TypeOK
<1>1. Inv => TypeOK
  BY DEF Inv, CacheInv, TypeOK
<1> QED
  BY <1>1, Invariance, PTL

\* What a tool answers tells whether its command was handed over for publication,
\* whether or not paho still had a socket to send it on.
THEOREM AnswersAreTruthful == Spec => []AnswerTellsOfPublication
<1>1. Inv => AnswerTellsOfPublication
  BY DEF Inv
<1> QED
  BY <1>1, Invariance, PTL

\* Nothing is published before the gate, the one contract and all its identity
\* probes have been passed with fresh live evidence.
THEOREM PublishesQualifiedHolds == Spec => PublishesQualified
<1>1. Inv /\ [Next]_vars =>
        [\A w \in Writers : fate[w] = "none" /\ fate'[w] # "none" => Authorised(w) /\ IdentityKnown(w)]_vars
  <2> SUFFICES ASSUME Inv, Next, NEW w \in Writers, fate[w] = "none", fate'[w] # "none"
               PROVE  Authorised(w) /\ IdentityKnown(w)
    OBVIOUS
  <2>1. Publish(w)
    BY SendsOnlyByPublish
  <2>2. pc[w] = "publish"
    BY <2>1 DEF Publish
  <2>3. /\ request[w] \in Requests /\ ValidateWriteOperation(cfg, request[w]) = "allowed"
        /\ HasContract(request[w]) /\ ValueQualified(ContractOf(request[w]), request[w])
        /\ IdentityKnown(w)
    BY <2>2 DEF Inv, GateInv, ProbeInv, Before, After
  <2>4. Authorised(w)
    BY <2>3 DEF Authorised, ValidateWriteOperation
  <2> QED
    BY <2>3, <2>4
<1> QED
  BY <1>1, Invariance, PTL DEF Spec, PublishesQualified

\* A success rests on a live read-back after written_at and on the identity
\* confirmed again.
THEOREM VerifiedMeansReadBackHolds == Spec => VerifiedMeansReadBack
<1>1. Inv /\ [Next]_vars =>
        [\A w \in Writers :
           pc[w] # "idle" /\ pc'[w] = "idle" /\ report'[w] = "verified" =>
             /\ heard[request[w].target][ValueOf(request[w])] <= elapsed[w]
             /\ IdentityKnown(w)]_vars
  <2> SUFFICES ASSUME Inv, Next, NEW w \in Writers,
                      pc[w] # "idle", pc'[w] = "idle", report'[w] = "verified"
               PROVE  /\ heard[request[w].target][ValueOf(request[w])] <= elapsed[w]
                      /\ IdentityKnown(w)
    OBVIOUS
  <2> DEFINE k == ContractOf(request[w])
  <2>1. /\ pc[w] = "reprobe" /\ ProbeHolds(k.identity[probe[w]])
        /\ probe[w] = Len(k.identity)
    BY VerifiesOnlyByRequalify
  <2>2. HasContract(request[w])
    BY <2>1 DEF Inv, GateInv, After
  <2>3. DOMAIN k.identity = 1 .. Len(k.identity) /\ Len(k.identity) \in Nat \ {0}
    BY <2>2, ContractFacts
  <2>4. ASSUME NEW i \in DOMAIN k.identity
        PROVE  heard[k.identity[i].topic][k.identity[i].expected] <= StaleAfter + checking[w]
    <3>1. CASE i < probe[w]
      BY <2>1, <3>1 DEF Inv, ProbeInv
    <3>2. CASE i = probe[w]
      BY <2>1, <2>2, <3>2, ContractFacts, KnownProbe
    <3> QED
      BY <2>1, <2>3, <3>1, <3>2
  <2>5. heard[request[w].target][ValueOf(request[w])] <= elapsed[w]
    BY <2>1 DEF Inv, ReadBackInv
  <2> QED
    BY <2>4, <2>5 DEF IdentityKnown
<1> QED
  BY <1>1, Invariance, PTL DEF Spec, VerifiedMeansReadBack

=============================================================================
