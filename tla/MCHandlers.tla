----------------------------- MODULE MCHandlers -----------------------------
(* Two protocol handlers on small instances: the resolver's (module Dns) and *)
(* that of HTTP (module HttpCb).  They share nothing: a behaviour takes the  *)
(* steps of one of them, and the other stays as it began.                    *)
EXTENDS Dns, HttpCb, TLC

CONSTANTS k1, k2, Handlers

Hosts == k1 :> "a" @@ k2 :> "b"
AllKinds == DOMAIN Shape

\* Scripts of which one request is delivered in one of the ways there are: at
\* once, when its body is there, when its chunks are.
Plain == {"get", "post", "chunked"}
PlainOne == Range(script) \cap Plain # {}

VARIABLE handler
allVars == <<handler, vars, httpVars>>

AllInit ==
    /\ handler \in Handlers
    /\ Init /\ HttpInit
    /\ IF handler = "http" THEN PlainOne
       ELSE script = CHOOSE s \in [1..Requests -> Kinds] : TRUE

DnsStep(A) == handler = "dns" /\ A /\ UNCHANGED <<handler, httpVars>>
HttpStep(A) == handler = "http" /\ A /\ UNCHANGED <<handler, vars>>

AllNext == DnsStep(Next) \/ HttpStep(HttpNext)
AllSpec == AllInit /\ [][AllNext]_allVars

\* The fairness of Dns!FairSpec and HttpCb!HttpFairSpec.
AllFairSpec ==
    /\ AllSpec
    /\ WF_allVars(DnsStep(Pass)) /\ SF_allVars(DnsStep(Tick))
    /\ WF_allVars(HttpStep(Loop)) /\ SF_allVars(HttpStep(DeferredReply))
=============================================================================
