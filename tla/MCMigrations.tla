---------------------------- MODULE MCMigrations ----------------------------
(* Model values for Migrations: the slow and the fast branch; the slow one    *)
(* reached by two spellings that differ in more than _identity ignores (the   *)
(* port written out).                                                         *)
EXTENDS Migrations

CONSTANTS c1, c2, slow, fast, slowUrl, slowPortUrl, fastUrl, index, rewrite

TwoContainers == {c1, c2}
SlowAndFast == {slow, fast}
IndexAndRewrite == {index, rewrite}
OnlyRewrite == {rewrite}
AllUrls == {slowUrl, slowPortUrl, fastUrl}

Reaches == [u \in Urls |-> IF u = fastUrl THEN fast ELSE slow]

\* Store apart, on the slow branch by either spelling or by none; and three
\* environments that are refused.
AllConfigurations ==
    {<<slowUrl, fastUrl, Unset>>, <<slowUrl, Unset, fastUrl>>,
     <<slowUrl, fastUrl, slowUrl>>, <<slowUrl, fastUrl, slowPortUrl>>,
     <<Unset, fastUrl, slowUrl>>, <<slowUrl, Alien, Unset>>, <<slowUrl, fastUrl, Alien>>}
=============================================================================
