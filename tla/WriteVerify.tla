---------------------------- MODULE WriteVerify ----------------------------
(***************************************************************************)
(* The write tools of server.py (set_inverter_mode,                        *)
(* set_charge_current_limit, set_soc_limit): the safety gate, the wait for *)
(* the MQTT client, the hardware contract checked against the cache probe  *)
(* by probe, the publication on W/..., and the read-back that must come    *)
(* before a success is reported.                                           *)
(*                                                                         *)
(* The tool calls share one event loop, so only one of them runs between   *)
(* two awaits; the network thread and the decoder run at any time.  The    *)
(* device is left open: it may notify any of Notices at any time, so what  *)
(* is shown here does not depend on how it takes a command.                *)
(***************************************************************************)
EXTENDS ReadCache, SafetyGate

CONSTANTS
  Writers,        \* concurrent tool calls
  Requests,       \* what they may ask for
  NoRequest,
  Notices,        \* what the device and the broker may notify
  StaleAfter,     \* mqtt.stale_after_seconds, in units of the clock
  PollLimit,      \* WRITE_VERIFY_TIMEOUT_S / 0.2: read-backs that fit in the window
  Configs         \* SafetyConfig and backend the server may be started with

ASSUME WriteAssumption ==
  /\ NoRequest \notin Requests
  /\ Notices \subseteq Notice
  /\ StaleAfter \in Nat \ {0} /\ StaleAfter < AgeCap
  /\ PollLimit \in Nat \ {0}
  /\ Configs \subseteq [enable_writes : BOOLEAN, require_confirmation : BOOLEAN, use_mqtt : BOOLEAN]
  /\ \A r \in Requests :
       /\ DOMAIN r = {"operation", "argument", "target", "confirmed"}
       /\ r.operation \in Operations /\ r.confirmed \in BOOLEAN /\ r.target \in Topics
  /\ \A k \in Contracts :
       /\ k.identity \in Seq([topic : Topics, expected : Values])
       /\ Len(k.identity) > 0

VARIABLES
  cfg,       \* enable_writes, require_confirmation, mqtt backend selected
  pc,        \* where each call stands
  request,   \* what it was asked
  probe,     \* the identity probe it reads next
  polls,     \* read-backs done
  elapsed,   \* age of its written_at
  report,    \* what its last call returned
  fate,      \* history: what became of the command of the running or last call
  checking   \* history: age of the start of its present identity check

callVars  == <<pc, request, probe, polls, report>>
timerVars == <<elapsed, checking>>
writeVars == <<cfg, callVars, timerVars, fate>>
vars      == <<cacheVars, writeVars>>

-----------------------------------------------------------------------------

\* Where a call awaits; everywhere else it keeps the event loop.
Awaiting == {"idle", "connect", "warmup", "sleep"}
PC == Awaiting \cup {"probe", "stamp", "publish", "poll", "reprobe"}

Reports == {"none", "refused", "prompt", "raised", "failed", "timeout", "drifted", "verified"}

\* Not handed to paho, handed to a socket that was gone already, or sent on W/.
Fates == {"none", "dropped", "sent"}

LoopFree(w) == \A u \in Writers \ {w} : pc[u] \in Awaiting

\* The ages a call keeps are followed only where it needs them.
Written(w)  == pc[w] \in {"publish", "poll", "sleep", "reprobe"}
Checking(w) == pc[w] \in {"probe", "stamp", "publish", "reprobe"}

AgedTimers ==
  /\ elapsed' = [w \in Writers |-> IF Written(w) THEN Older(elapsed[w]) ELSE 0]
  /\ checking' = [w \in Writers |-> IF Checking(w) THEN Older(checking[w]) ELSE 0]

Init ==
  /\ CacheInit
  /\ cfg \in Configs
  /\ pc = [w \in Writers |-> "idle"]
  /\ request = [w \in Writers |-> NoRequest]
  /\ probe = [w \in Writers |-> 1]
  /\ polls = [w \in Writers |-> 0]
  /\ elapsed = [w \in Writers |-> 0]
  /\ report = [w \in Writers |-> "none"]
  /\ fate = [w \in Writers |-> "none"]
  /\ checking = [w \in Writers |-> 0]

-----------------------------------------------------------------------------
(* One tool call.                                                          *)

Goto(w, l) == pc' = [pc EXCEPT ![w] = l]

\* Return to the caller.
Return(w, outcome) ==
  /\ Goto(w, "idle")
  /\ report' = [report EXCEPT ![w] = outcome]
  /\ request' = [request EXCEPT ![w] = NoRequest]
  /\ probe' = [probe EXCEPT ![w] = 1]
  /\ polls' = [polls EXCEPT ![w] = 0]
  /\ elapsed' = [elapsed EXCEPT ![w] = 0]
  /\ checking' = [checking EXCEPT ![w] = 0]

Continue(w, l) ==
  /\ Goto(w, l)
  /\ UNCHANGED <<report, request>>

\* The tool body up to its first await: _confirm_gate, then the backend.
Call(w, r) ==
  LET verdict == ValidateWriteOperation(cfg, r) IN
  /\ pc[w] = "idle" /\ LoopFree(w)
  /\ fate' = [fate EXCEPT ![w] = "none"]
  /\ \/ /\ verdict # "allowed" \/ ~cfg.use_mqtt
        /\ Return(w, IF verdict = "prompt" THEN "prompt" ELSE "refused")
     \/ /\ verdict = "allowed" /\ cfg.use_mqtt
        /\ Goto(w, "connect")
        /\ request' = [request EXCEPT ![w] = r]
        /\ report' = [report EXCEPT ![w] = "none"]
        /\ UNCHANGED <<probe, polls, timerVars>>
  /\ UNCHANGED <<cacheVars, cfg>>

\* _mqtt_ready: connect() returns on a live session or raises.
Connected(w) ==
  /\ pc[w] = "connect" /\ LoopFree(w)
  /\ connected
  /\ Continue(w, "warmup")
  /\ UNCHANGED <<cacheVars, cfg, probe, polls, timerVars, fate>>

ConnectFails(w) ==
  /\ pc[w] = "connect" /\ LoopFree(w)
  /\ Return(w, "raised")
  /\ UNCHANGED <<cacheVars, cfg, fate>>

\* The marker of the full publish is cached or the warm-up timed out; then the
\* value is determined and validate_hardware_write looks for the one contract.
WarmedUp(w) ==
  /\ pc[w] = "warmup" /\ LoopFree(w)
  /\ \/ /\ HasValue(request[w]) /\ HasContract(request[w])
        /\ Continue(w, "probe")
        /\ UNCHANGED <<probe, polls, timerVars>>
     \/ /\ ~(HasValue(request[w]) /\ HasContract(request[w]))
        /\ Return(w, "refused")
  /\ UNCHANGED <<cacheVars, cfg, fate>>

\* Mutant: the age of a probe is not tested.
ProbeMatches(p) == cache[p.topic] # NoEntry /\ cache[p.topic].value = p.expected

\* One read of the cache and its test in validate_hardware_write.
ProbeHolds(p) ==
  /\ cache[p.topic] # NoEntry
  /\ cache[p.topic].value = p.expected
  /\ cache[p.topic].age <= StaleAfter

\* One iteration over the identity probes, and the value test after the last.
CheckStep(w, here, next, failure) ==
  LET k == ContractOf(request[w])
      last == probe[w] = Len(k.identity)
  IN
  /\ pc[w] = here
  /\ \/ /\ ProbeHolds(k.identity[probe[w]]) /\ ~last
        /\ probe' = [probe EXCEPT ![w] = @ + 1]
        /\ UNCHANGED <<pc, request, polls, report, timerVars>>
     \/ /\ ProbeHolds(k.identity[probe[w]]) /\ last /\ ValueQualified(k, request[w])
        /\ IF next = "return"
             THEN Return(w, "verified")
             ELSE /\ Continue(w, next)
                  /\ probe' = [probe EXCEPT ![w] = 1]
                  /\ UNCHANGED <<polls, timerVars>>
     \/ /\ ~(ProbeHolds(k.identity[probe[w]]) /\ (last => ValueQualified(k, request[w])))
        /\ Return(w, failure)
  /\ UNCHANGED <<cacheVars, cfg, fate>>

Probe(w) == CheckStep(w, "probe", "stamp", "refused")

\* written_at = time.monotonic().
Stamp(w) ==
  /\ pc[w] = "stamp"
  /\ Continue(w, "publish")
  /\ Ageing
  /\ elapsed' = [u \in Writers |-> IF u # w /\ Written(u) THEN Older(elapsed[u]) ELSE 0]
  /\ checking' = [u \in Writers |-> IF Checking(u) THEN Older(checking[u]) ELSE 0]
  /\ UNCHANGED <<cfg, probe, polls, fate>>

\* client.publish: refused without a session, otherwise handed to paho.  Paho may
\* have lost the socket before on_disconnect clears the flag: then it sends
\* nothing, and its return code is not looked at.
Publish(w) ==
  /\ pc[w] = "publish"
  /\ connected
  /\ \E f \in {"sent", "dropped"} : fate' = [fate EXCEPT ![w] = f]
  /\ Continue(w, "poll")
  /\ checking' = [checking EXCEPT ![w] = 0]
  /\ UNCHANGED <<cacheVars, cfg, probe, polls, elapsed>>

\* Mutant: a publication that failed is reported as one that was not verified.
PublishFailsAsTimeout(w) ==
  /\ pc[w] = "publish"
  /\ ~connected
  /\ Return(w, "timeout")
  /\ UNCHANGED <<cacheVars, cfg, fate>>

PublishFails(w) ==
  /\ pc[w] = "publish"
  /\ ~connected
  /\ Return(w, "failed")
  /\ UNCHANGED <<cacheVars, cfg, fate>>

\* Mutant: any cached value acknowledges the write.
ReadAnyTime(w) ==
  /\ cache[request[w].target] # NoEntry
  /\ cache[request[w].target].value = ValueOf(request[w])

\* read_path_since(written_at) and _values_match.
ReadBack(w) ==
  LET e == cache[request[w].target] IN
  /\ e # NoEntry
  /\ e.age <= elapsed[w]
  /\ e.value = ValueOf(request[w])

PollsLeft(w) == polls[w] < PollLimit

\* One turn of the verification loop.
Poll(w) ==
  /\ pc[w] = "poll" \/ (pc[w] = "sleep" /\ LoopFree(w))
  /\ PollsLeft(w)
  /\ \/ /\ ReadBack(w)
        /\ Continue(w, "reprobe")
        /\ UNCHANGED polls
     \/ /\ ~ReadBack(w)
        /\ Continue(w, "sleep")
        /\ polls' = [polls EXCEPT ![w] = @ + 1]
  /\ UNCHANGED <<cacheVars, cfg, probe, timerVars, fate>>

\* Mutant: the window never closes.
WaitForever(w) == FALSE

\* The window closes; a slow loop may not even get to its first read-back.
GiveUp(w) ==
  /\ pc[w] = "poll" \/ (pc[w] = "sleep" /\ LoopFree(w))
  /\ Return(w, "timeout")
  /\ UNCHANGED <<cacheVars, cfg, fate>>

\* Mutant: the read-back alone is enough.
TrustReadBack(w) ==
  /\ pc[w] = "reprobe"
  /\ Return(w, "verified")
  /\ UNCHANGED <<cacheVars, cfg, fate>>

\* still_qualified: the whole contract once more before a success is reported.
Requalify(w) == CheckStep(w, "reprobe", "return", "drifted")

\* The task is cancelled at an await.
Cancel(w) ==
  /\ pc[w] \in Awaiting \ {"idle"} /\ LoopFree(w)
  /\ Return(w, "none")
  /\ UNCHANGED <<cacheVars, cfg, fate>>

-----------------------------------------------------------------------------

CallStep(w) ==
  \/ Connected(w) \/ ConnectFails(w) \/ WarmedUp(w) \/ Probe(w) \/ Stamp(w)
  \/ Publish(w) \/ PublishFails(w) \/ Poll(w) \/ GiveUp(w) \/ Requalify(w)

\* The network thread, the decoder and the clock.
CacheStep ==
  \/ /\ SessionUp \/ SessionDown \/ Retire \/ HandleMessage
     /\ UNCHANGED timerVars
  \/ /\ Ageing \/ \E m \in Notices : OnMessage(m)
     /\ AgedTimers

Next ==
  \/ CacheStep /\ UNCHANGED <<cfg, callVars, fate>>
  \/ \E w \in Writers :
       \/ \E r \in Requests : Call(w, r)
       \/ CallStep(w)
       \/ Cancel(w)

Spec == Init /\ [][Next]_vars

\* The event loop runs its ready tasks in turn, so a call that others keep
\* overtaking is not passed over for ever; connect(), the warm-up and the
\* verification loop each have a deadline.
Fairness == \A w \in Writers : SF_vars(CallStep(w))

FairSpec == Spec /\ Fairness

-----------------------------------------------------------------------------
(* Properties.                                                             *)

WriterTypeOK ==
  /\ cfg \in Configs
  /\ pc \in [Writers -> PC]
  /\ request \in [Writers -> Requests \cup {NoRequest}]
  /\ probe \in [Writers -> Nat \ {0}]
  /\ polls \in [Writers -> 0 .. PollLimit]
  /\ elapsed \in [Writers -> Age]
  /\ checking \in [Writers -> Age]
  /\ report \in [Writers -> Reports]
  /\ fate \in [Writers -> Fates]

TypeOK == CacheTypeOK /\ WriterTypeOK

\* Every probe of w's contract was received live, with the reviewed value, no
\* more than StaleAfter before the present check began.
IdentityKnown(w) ==
  \A i \in DOMAIN ContractOf(request[w]).identity :
    LET p == ContractOf(request[w]).identity[i] IN
    heard[p.topic][p.expected] <= StaleAfter + checking[w]

Authorised(w) ==
  /\ cfg.enable_writes
  /\ cfg.require_confirmation => request[w].confirmed
  /\ ArgumentAllowed(request[w])
  /\ HasContract(request[w]) /\ ValueQualified(ContractOf(request[w]), request[w])

\* Nothing is handed over for W/ unless the killswitch is off, the caller confirmed,
\* the value lies within the configured and the reviewed limits, and each identity
\* of the one matching contract was really received, fresh, and not replayed
\* ("Fail closed before publishing W/", hardware_contracts.py).
PublishesQualified ==
  [][\A w \in Writers :
       fate[w] = "none" /\ fate'[w] # "none" => Authorised(w) /\ IdentityKnown(w)]_vars

\* A success is reported only after the written value was received as a live
\* notification after written_at, and the identity was confirmed again after it:
\* neither queued old telemetry nor a drifted target can acknowledge a write
\* (read_path_since, still_qualified).
VerifiedMeansReadBack ==
  [][\A w \in Writers :
       pc[w] # "idle" /\ pc'[w] = "idle" /\ report'[w] = "verified" =>
         /\ heard[request[w].target][ValueOf(request[w])] <= elapsed[w]
         /\ IdentityKnown(w)]_vars

\* The answer tells whether a command may have reached the device: a refusal, a
\* prompt, an exception or a failed publication handed nothing to paho, and "write
\* published" is said only of a command that was handed over.  More the answer
\* cannot tell: what paho then drops is announced all the same.
AnswerTellsOfPublication ==
  \A w \in Writers :
    /\ report[w] \in {"refused", "prompt", "raised", "failed"} => fate[w] = "none"
    /\ report[w] \in {"timeout", "drifted", "verified"} => fate[w] # "none"

-----------------------------------------------------------------------------
(* The inductive invariant behind the safety properties.                   *)

Before(w) == pc[w] \in {"connect", "warmup", "probe", "stamp", "publish"}
After(w)  == pc[w] \in {"poll", "sleep", "reprobe"}

\* A call only gets past a gate that let its request through.
GateInv ==
  \A w \in Writers :
    /\ Before(w) \/ After(w) =>
         request[w] \in Requests /\ ValidateWriteOperation(cfg, request[w]) = "allowed"
    /\ pc[w] \in {"probe", "stamp", "publish"} \/ After(w) => HasContract(request[w])
    /\ pc[w] \in {"stamp", "publish"} \/ After(w) =>
         ValueQualified(ContractOf(request[w]), request[w])

\* The probes read so far are known, and after the last of them all are.
ProbeInv ==
  \A w \in Writers :
    /\ pc[w] \in {"probe", "reprobe"} =>
         /\ probe[w] \in DOMAIN ContractOf(request[w]).identity
         /\ \A i \in DOMAIN ContractOf(request[w]).identity :
              i < probe[w] =>
                LET p == ContractOf(request[w]).identity[i] IN
                heard[p.topic][p.expected] <= StaleAfter + checking[w]
    /\ pc[w] \in {"stamp", "publish"} => IdentityKnown(w)
    /\ pc[w] \notin {"probe", "reprobe"} => probe[w] = 1

\* Past the read-back, the written value was received after written_at.
ReadBackInv ==
  \A w \in Writers : pc[w] = "reprobe" =>
    /\ ValueOf(request[w]) \in Values
    /\ heard[request[w].target][ValueOf(request[w])] <= elapsed[w]

FateInv ==
  \A w \in Writers :
    /\ Before(w) => fate[w] = "none"
    /\ After(w) => fate[w] # "none"
    /\ pc[w] # "idle" => report[w] = "none"

Inv ==
  /\ CacheInv /\ WriterTypeOK
  /\ GateInv /\ ProbeInv /\ ReadBackInv /\ FateInv /\ AnswerTellsOfPublication

-----------------------------------------------------------------------------
(* Liveness.                                                               *)

\* Every write call returns.
WriteReturns == \A w \in Writers : pc[w] # "idle" ~> pc[w] = "idle"

=============================================================================
