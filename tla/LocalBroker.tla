---------------------------- MODULE LocalBroker -----------------------------
(***************************************************************************)
(* The ingress of the local broker: POST /packet of                        *)
(* apps/console/src/main/server.ts, with its token bucket and the window   *)
(* of idempotency keys it remembers for 60 s.  Express runs the handler to *)
(* completion, so a packet is one action.  All of this state lives in the  *)
(* process' memory and is gone after a restart.                            *)
(***************************************************************************)
EXTENDS Naturals

CONSTANTS
    PacketKeys,     \* idempotency keys a packet may carry
    UnknownTypes,   \* contents whose event type the registry does not know
    Burst           \* size of the token bucket, rps = 8 in the code

VARIABLES
    window,     \* IDEMPOTENT_WINDOW: keys accepted less than 60 s ago
    tokens,     \* whole tokens in the bucket of the loopback address
    published,  \* history: keys whose event reached the subscribers
    repeated    \* history: keys whose event reached them more than once

brokerVars == <<window, tokens, published, repeated>>

Accepted      == 202
Deduplicated  == 208
Invalid       == 400
RateLimited   == 429
Answers       == {Accepted, Deduplicated, Invalid, RateLimited}

BrokerTypeOK ==
    /\ window \subseteq PacketKeys
    /\ tokens \in 0..Burst
    /\ published \subseteq PacketKeys
    /\ repeated \subseteq PacketKeys

BrokerInit ==
    /\ window = {}
    /\ tokens = Burst
    /\ published = {}
    /\ repeated = {}

StatusUndeduplicated(k, content) ==     \* broken form of StatusOf: no look at the window
    CASE tokens = 0                               -> RateLimited
      [] tokens > 0 /\ content \in UnknownTypes   -> Invalid
      [] OTHER                                    -> Accepted

(* The status of the answer: the limiter is asked first, then the registry, *)
(* then the window.                                                        *)
StatusOf(k, content) ==
    CASE tokens = 0                               -> RateLimited
      [] tokens > 0 /\ content \in UnknownTypes   -> Invalid
      [] OTHER -> IF k \in window THEN Deduplicated ELSE Accepted

(* A packet that is accepted enters the window and is published on the bus. *)
Publish(k) ==
    /\ window' = window \cup {k}
    /\ published' = published \cup {k}
    /\ repeated' = IF k \in published THEN repeated \cup {k} ELSE repeated

PublishIfAccepted(k, content) ==
    IF StatusOf(k, content) = Accepted THEN Publish(k)
                                       ELSE UNCHANGED <<window, published, repeated>>

HandlePacketOverdrawn(k, content) ==    \* broken form of HandlePacket: 429 costs a token
    /\ tokens' = tokens - 1
    /\ PublishIfAccepted(k, content)

(* The whole handler; only a packet answered 202 is published.             *)
HandlePacket(k, content) ==
    /\ tokens' = IF tokens = 0 THEN 0 ELSE tokens - 1
    /\ PublishIfAccepted(k, content)

(* Time: the bucket gains a token; a remembered key passes 60 s.           *)
Refill ==
    /\ tokens < Burst
    /\ tokens' = tokens + 1
    /\ UNCHANGED <<window, published, repeated>>

Forget(k) ==
    /\ k \in window
    /\ window' = window \ {k}
    /\ UNCHANGED <<tokens, published, repeated>>

(* The process ends; what was published stays published.                   *)
BrokerLost ==
    /\ window' = {}
    /\ tokens' = Burst
    /\ UNCHANGED <<published, repeated>>
=============================================================================
