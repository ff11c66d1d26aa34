------------------------------ MODULE MCParts ------------------------------
(* The parts that run on their own, one at a time: each behaviour is one    *)
(* part's, chosen at the start, and the variables of the others stand       *)
(* still.  Nothing is shared between them.                                  *)
EXTENDS VersionSync, PrepareVersion, OciMerge, FuzzCampaign, RegistryPublish,
        ReadTools, DBusClient, Subscriptions, TLC

CONSTANTS p1, p2

VARIABLE part
Parts == {"sync", "prepare", "oci", "fuzz", "registry", "tools", "dbus", "subscriptions"}
partVars == <<part, syncVars, prepVars, ociVars, fuzzVars, regVars, toolVars, dbusVars, subVars>>

PartsInit ==
    /\ part \in Parts
    /\ SyncInit /\ (part # "sync" => policy = CHOOSE p \in Policies : TRUE)
    /\ PrepInit
    /\ OciInit /\ (part # "oci" => \A i \in DOMAIN input : input[i].archive = CHOOSE a \in Archives : TRUE)
    /\ FuzzInit
    /\ RegInit
    /\ ToolInit /\ (part # "tools" => items = [t \in Items |-> Absent])
    /\ DBusInit
    /\ SubInit

PartsNext ==
    \/ /\ part = "sync" /\ SyncNext
       /\ UNCHANGED <<part, prepVars, ociVars, fuzzVars, regVars, toolVars, dbusVars, subVars>>
    \/ /\ part = "prepare" /\ PrepNext
       /\ UNCHANGED <<part, syncVars, ociVars, fuzzVars, regVars, toolVars, dbusVars, subVars>>
    \/ /\ part = "oci" /\ OciNext
       /\ UNCHANGED <<part, syncVars, prepVars, fuzzVars, regVars, toolVars, dbusVars, subVars>>
    \/ /\ part = "fuzz" /\ FuzzNext
       /\ UNCHANGED <<part, syncVars, prepVars, ociVars, regVars, toolVars, dbusVars, subVars>>
    \/ /\ part = "registry" /\ RegNext
       /\ UNCHANGED <<part, syncVars, prepVars, ociVars, fuzzVars, toolVars, dbusVars, subVars>>
    \/ /\ part = "tools" /\ ToolNext
       /\ UNCHANGED <<part, syncVars, prepVars, ociVars, fuzzVars, regVars, dbusVars, subVars>>
    \/ /\ part = "dbus" /\ DBusNext
       /\ UNCHANGED <<part, syncVars, prepVars, ociVars, fuzzVars, regVars, toolVars, subVars>>
    \/ /\ part = "subscriptions" /\ SubNext
       /\ UNCHANGED <<part, syncVars, prepVars, ociVars, fuzzVars, regVars, toolVars, dbusVars>>

\* A command runs to its end unless it is killed; the release job tries each plan
\* again, and a maintainer repeats a request that names its version.
Spec ==
    /\ PartsInit /\ [][PartsNext]_partVars
    /\ WF_syncVars(part = "sync" /\ SyncRuns)
    /\ \A plan \in Plans : SF_syncVars(part = "sync" /\ Begin(plan))
    /\ \A p \in Preps : \A r \in Requests[p] : r.requested # 0 =>
         /\ WF_prepVars(part = "prepare" /\ PrepStep(p))
         /\ SF_prepVars(part = "prepare" /\ Checkout(p, r))

\* The promise of synchronisation: no death halfway is fatal (verify_checkout takes
\* each file as committed or as the plan leaves it).
SyncEnds == part = "sync" => SyncCompletes

\* The promise of preparation: a requested version has its pull request again and
\* again, whoever died or lost a race (_preparation_topic, prepare).
PrepareEnds == part = "prepare" => PreparationCompletes
----------------------------------------------------------------------------
Declare(p, f, v, e) == [path |-> p, field |-> f, value |-> v, ecosystem |-> e]
\* A Python package next to a generic one with a build counter; overlapping
\* selectors that agree only under some plans, with an Apple build; no counter.
MCPolicies ==
    {<<Declare("a", "version", "package", "pep440"), Declare("b", "version", "package", "semver"),
       Declare("b", "build", "build", "semver")>>,
     <<Declare("a", "version", "full", "semver"), Declare("a", "version", "package", "semver"),
       Declare("b", "version", "base", "semver"), Declare("b", "build", "apple-build", "semver")>>,
     <<Declare("a", "version", "package", "pep440"), Declare("b", "version", "package", "semver")>>}
Frozen(b, c, s, n, way) == [base |-> b, channel |-> c, run |-> 1, attempt |-> 1, sequence |-> s,
                           number |-> n, promotion |-> way]
MCPlans == {Frozen(1, "beta", 1, 1, "promote-bytes"), Frozen(1, "rc", 1, 2, "promote-bytes"),
            Frozen(1, "nightly", 0, 0, "final-build"), Frozen(2, "beta", 1, 1, "promote-bytes")}

\* 1.0.0 with 1.0.1 requested by name, and 1.1.0 or the next free patch by bump.
Ask(v, bump) == [requested |-> v, bump |-> bump]
MCRequests == (p1 :> {Ask(101, "none")}) @@ (p2 :> {Ask(0, "minor"), Ask(0, "next-patch")})

\* Two good archives, and what an input may be instead: another version, another
\* layer than the config names, a missing or a corrupt blob, an image twice, an
\* index too deep, the attestation of another image.
Image(p, v, c, diff) == [kind |-> "image", platform |-> p, version |-> v, config |-> c,
                         layers |-> <<"l1">>, diffs |-> <<diff>>]
MCBlob ==
    [ix |-> [kind |-> "index", children |-> <<"x1", "at">>],
     deep |-> [kind |-> "index", children |-> <<"ix">>],
     x1 |-> Image("amd64", 1, "cx", "plain"), x2 |-> Image("amd64", 2, "cx", "plain"),
     x3 |-> Image("amd64", 1, "cx", "wrong"), a1 |-> Image("arm64", 1, "ca", "plain"),
     at |-> [kind |-> "attestation", config |-> "ct", subject |-> "x1", statements |-> {"s"}],
     s |-> [kind |-> "statement", subject |-> "x1"],
     cx |-> [kind |-> "config", platform |-> "amd64"],
     ca |-> [kind |-> "config", platform |-> "arm64"],
     ct |-> [kind |-> "config", platform |-> "none"],
     l1 |-> [kind |-> "layer", plain |-> "plain"]]
Archived(r, h, b) == [root |-> r, has |-> h, bad |-> b]
MCArchives ==
    {Archived(<<"ix">>, {"ix", "x1", "at", "ct", "s", "cx", "l1"}, {}),
     Archived(<<"a1">>, {"a1", "ca", "l1"}, {}),
     Archived(<<"x2">>, {"x2", "cx", "l1"}, {}),
     Archived(<<"x3">>, {"x3", "cx", "l1"}, {}),
     Archived(<<"x1">>, {"x1", "cx"}, {}),
     Archived(<<"x1">>, {"x1", "cx", "l1"}, {"l1"}),
     Archived(<<"x1", "x1">>, {"x1", "cx", "l1"}, {}),
     Archived(<<"deep">>, {"deep", "ix", "x1", "at", "ct", "s", "cx", "l1"}, {}),
     Archived(<<"a1", "at">>, {"a1", "x1", "at", "ct", "s", "ca", "l1"}, {})}
MCPlatforms == <<"amd64", "arm64">>

MCTargets == <<"t1", "t2">>
MCMapping == <<"server", "bridge">>

\* Two solar chargers and a PV inverter that shares an instance with one of them.
MCItems == {<<"solar", 1, "P">>, <<"solar", 1, "V">>, <<"solar", 2, "P">>, <<"pv", 2, "Q">>,
            <<"tank", 1, "P">>}
MCFields == <<<<"P", "Q">>, <<"V">>>>
Tool(types, i) == [types |-> types, instance |-> i]
MCCalls == {Tool(<<"solar", "pv">>, 0), Tool(<<"solar", "pv">>, 2),
            Tool(<<"tank">>, 0), Tool(<<>>, 0)}
MCMarkers == [pump |-> "tank", control |-> "inverter"]
=============================================================================
