---------------------------- MODULE MCProcessors ----------------------------
(***************************************************************************)
(* Processors on a small instance: two payloads of traces and one of       *)
(* metrics, hashes of two bits, two orders of the chain.                   *)
(***************************************************************************)
EXTENDS Processors, TLC

MCConfigs == {[rate |-> "trace" :> 2 @@ "metric" :> 1, burst |-> 2]}
MCChains == {"trace" :> <<"memlimit", "ratelimit", "sampler", "degrade">> @@
             "metric" :> <<"memlimit", "ratelimit", "degrade">>,
             "trace" :> <<"sampler", "degrade", "ratelimit", "memlimit">> @@
             "metric" :> <<>>}
MCSpansOf == [p \in Payloads |-> CASE p = "t1" -> {"u0", "u1", "u2", "u3"}
                                   [] p = "t2" -> {"v1", "anonymous"}
                                   [] p = "m1" -> {"d1"}]
MCSignalOf == [p \in Payloads |-> IF p = "m1" THEN "metric" ELSE "trace"]
MCHashOf == "u0" :> 0 @@ "u1" :> 1 @@ "u2" :> 2 @@ "u3" :> 3
            @@ "v1" :> 1 @@ "anonymous" :> NoTrace @@ "d1" :> NoTrace
MCRates == {-1, 1, 3}
=============================================================================
