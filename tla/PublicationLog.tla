-------------------------- MODULE PublicationLog --------------------------
(***************************************************************************)
(* What the release toolkit promises to whoever installs a package: an     *)
(* append-only history of publications.  A number is spent before anything *)
(* is public; what is public is never replaced; and while one workflow at  *)
(* a time publishes (serial), numbers never go down, one number names one  *)
(* build, and no candidate of a base appears after its final release.      *)
(***************************************************************************)
EXTENDS Integers, Sequences

VARIABLES
    log,        \* every publication so far, in order
    public,     \* the tags that users can see now
    spent,      \* the highest build number given up for publication
    serial      \* whether publications are serialized; never changes

logVars == <<log, public, spent, serial>>

LogInit ==
    /\ log = <<>>
    /\ public = {}
    /\ spent = 0
    /\ serial \in BOOLEAN

Spend ==
    /\ spent' \in Int
    /\ spent' > spent
    /\ UNCHANGED <<log, public, serial>>

\* e.tag = <<base, channel, sequence>>.
Publish(e) ==
    /\ e.tag \notin public
    /\ e.num <= spent
    /\ \A i \in DOMAIN log : log[i].num = e.num => log[i].build = e.build
    /\ serial => /\ \A i \in DOMAIN log : log[i].num <= e.num
                 /\ e.tag[2] \in {"beta", "rc"} => <<e.tag[1], "stable", 0>> \notin public
    /\ log' = Append(log, e)
    /\ public' = public \cup {e.tag}
    /\ UNCHANGED <<spent, serial>>

\* A maintainer deletes a release; the history keeps it.
Withdraw(t) ==
    /\ public' = public \ {t}
    /\ UNCHANGED <<log, spent, serial>>

LogNext ==
    \/ Spend
    \/ Len(log') = Len(log) + 1 /\ Publish(log'[Len(log')])
    \/ \E t \in public : Withdraw(t)

LogSpec == LogInit /\ [][LogNext]_logVars
=============================================================================
