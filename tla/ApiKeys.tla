------------------------------- MODULE ApiKeys -------------------------------
(***************************************************************************)
(* The public API's door: withApiKey in apps/web/lib/console/api.ts and    *)
(* the keys and the rate limit in packages/integrations/src/api-keys.ts.   *)
(*                                                                         *)
(* A call resolves its key, counts the requests logged this minute, is     *)
(* served, and is logged last, each in a transaction of its own.  A minute *)
(* begins at any time.  Requests are counted to one beyond the limit, after    *)
(* which the code sees no difference.                                      *)
(***************************************************************************)
EXTENDS Naturals, FiniteSets

CONSTANTS
    Keys,
    Limit,          \* rate_limit_per_minute
    Calls,          \* calls the server handles at once
    Nil

VARIABLES
    key,            \* per key: "live", "revoked", "expired"
    used,           \* per key, api_requests of this minute
    call,           \* per call, where it is and whose
    admitted,       \* history: calls let through this minute
    lost            \* history: calls of this minute whose log entry was lost

kvars == <<key, used, call, admitted, lost>>

NoCall == [pc |-> "idle", key |-> Nil]

TypeOK ==
    /\ key \in [Keys -> {"live", "revoked", "expired"}]
    /\ used \in [Keys -> 0 .. Limit + 1]
    /\ \A c \in Calls : call[c].pc \in {"idle", "check", "serve", "log"}
    /\ admitted \in [Keys -> Nat] /\ lost \in [Keys -> Nat]

Init ==
    /\ key = [k \in Keys |-> "live"]
    /\ used = [k \in Keys |-> 0]
    /\ call = [c \in Calls |-> NoCall]
    /\ admitted = [k \in Keys |-> 0]
    /\ lost = [k \in Keys |-> 0]

\* resolveApiKey and authorize: an unknown or revoked key ends there, a scope it
\* does not have is logged (and counts).
ResolveApiKey(c, k) ==
    /\ call[c].pc = "idle"
    /\ key[k] = "live"
    /\ \E pc \in {"check", "log"} : call' = [call EXCEPT ![c] = [pc |-> pc, key |-> k]]
    /\ UNCHANGED <<key, used, admitted, lost>>

\* Seeded fault: one more than the limit.
Allowed_OneMore(k) == used[k] <= Limit

\* checkRateLimit
Allowed(k) == used[k] < Limit

CheckRateLimit(c) ==
    LET k == call[c].key
    IN  /\ call[c].pc = "check"
        /\ call' = [call EXCEPT ![c].pc = IF Allowed(k) THEN "serve" ELSE "log"]
        /\ admitted' = [admitted EXCEPT ![k] = IF Allowed(k) THEN @ + 1 ELSE @]
        /\ UNCHANGED <<key, used, lost>>

\* The handler answers or fails; either way the call is logged.
Serve(c) ==
    /\ call[c].pc = "serve"
    /\ call' = [call EXCEPT ![c].pc = "log"]
    /\ UNCHANGED <<key, used, admitted, lost>>

\* logRequest: a failure to log is swallowed.
LogRequest(c) ==
    LET k == call[c].key
    IN  /\ call[c].pc = "log"
        /\ \/ /\ used' = [used EXCEPT ![k] = IF @ <= Limit THEN @ + 1 ELSE @]
              /\ UNCHANGED lost
           \/ /\ lost[k] < 1
              /\ lost' = [lost EXCEPT ![k] = @ + 1]
              /\ UNCHANGED used
        /\ call' = [call EXCEPT ![c] = NoCall]
        /\ UNCHANGED <<key, admitted>>

\* date_trunc('minute', now()) moves on.
NextMinute ==
    /\ used' = [k \in Keys |-> 0]
    /\ admitted' = [k \in Keys |-> 0]
    /\ lost' = [k \in Keys |-> 0]
    /\ UNCHANGED <<key, call>>

\* revokeApiKey, or expires_at passes.
End(k) ==
    /\ key[k] = "live"
    /\ \E how \in {"revoked", "expired"} : key' = [key EXCEPT ![k] = how]
    /\ UNCHANGED <<used, call, admitted, lost>>

Next ==
    \/ \E c \in Calls : \/ \E k \in Keys : ResolveApiKey(c, k)
                        \/ CheckRateLimit(c) \/ Serve(c) \/ LogRequest(c)
    \/ NextMinute
    \/ \E k \in Keys : End(k)

Spec == Init /\ [][Next]_kvars

(* The limit is what it says but for the calls under way: in one minute a  *)
(* key is let through no more often than its limit and the other calls     *)
(* under way allow, plus the calls whose log entry was lost; whatever of   *)
(* the minute before is still being served or logged (checkRateLimit       *)
(* counts what logRequest writes afterwards).                              *)
RateBounded ==
    \A k \in Keys : admitted[k] <= Limit + (Cardinality(Calls) - 1) + lost[k]

=============================================================================
