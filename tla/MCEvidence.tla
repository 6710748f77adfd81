------------------------------ MODULE MCEvidence ------------------------------
EXTENDS Evidence, TLC

CONSTANTS router, webapi, login, d1, d12, users, dnsFail, tlsFail, retry, plain, cosmetic

MCContexts == {[local |-> TRUE, os |-> "linux"], [local |-> FALSE, os |-> "windows"], [local |-> FALSE, os |-> "macos"],
               [local |-> FALSE, os |-> "unknown"]}

(* A router, which is best-effort, and two required servers.               *)
MCProfile == <<[host |-> router, ports |-> {5938, 443}, https |-> FALSE, bestEffort |-> TRUE],
               [host |-> login, ports |-> {443}, https |-> TRUE, bestEffort |-> FALSE],
               [host |-> webapi, ports |-> {443}, https |-> TRUE, bestEffort |-> FALSE]>>

(* The name of the second device contains that of the first one.           *)
MCIncludes == {<<d1, d1>>, <<d12, d12>>, <<d12, d1>>}

MCSignature == {dnsFail, tlsFail, retry, plain, cosmetic}
MCMatches == (dnsFail :> {"issue", "dns"}) @@ (tlsFail :> {"issue", "tls", "marked"})
             @@ (retry :> {"issue", "transport", "network", "reconnect"})
             @@ (plain :> {"issue"}) @@ (cosmetic :> {"issue", "benign", "marked"})
MCTexts == {<<<<dnsFail, 3>>>>, <<<<retry, 3>>, <<tlsFail, 3>>>>,
            <<<<cosmetic, 50>>, <<retry, 1>>>>, <<<<plain, 4>>, <<retry, 100>>>>}
MCLogFiles == {<<>>} \cup {<<a>> : a \in MCTexts} \cup {<<<<>>, a, b>> : a, b \in MCTexts}
              \cup {<<a, b>> : a, b \in MCTexts}
MCEvents == {<<>>, <<"sleep", "offline", "wake">>, <<"offline">>}
MCLogBound == 468
MCLog100 == [n \in 1 .. MCLogBound |->
                CASE n < 2 -> 0 [] n < 3 -> 30 [] n < 4 -> 48 [] n < 10 -> 60
                  [] n < 100 -> 100 [] n < 468 -> 200 [] OTHER -> 267]
=============================================================================
