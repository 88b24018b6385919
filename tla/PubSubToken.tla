----------------------------- MODULE PubSubToken ----------------------------
(***************************************************************************)
(* Where a Pub/Sub session sends its requests and the bearer token it      *)
(* sends with them: ApplyRuntimeEnvironment and EndpointBase in            *)
(* PubSubConfig.cpp, BearerToken and its two ways to a token in            *)
(* PubSubUtil.cpp.  A session is used by one thread at a time.             *)
(*                                                                         *)
(* The unit of time is 30 seconds: the margin of 60 seconds is 2 and the   *)
(* limit of 90 seconds is 3.  The timeouts of the exchanges (15 and 2      *)
(* seconds) are less than a unit, so an exchange sees at most one tick.    *)
(***************************************************************************)
EXTENDS Naturals

CONSTANTS
    Lives,          \* the values of expires_in
    MaxTime         \* when the clock stops

ASSUME LivesAssumption == Lives \subseteq Nat

VARIABLES
    config,         \* what the configuration and the environment have set
    now,            \* EpochSeconds
    token,          \* cachedToken_: how it was come by, and when it really ends
    expiry,         \* tokenExpiryEpoch_
    exchange,       \* the exchange that is under way, or Idle
    sent            \* the last request: where, with which token and when it went

vars == <<config, now, token, expiry, exchange, sent>>

None == [from |-> "nowhere", end |-> 0, life |-> 0]
Idle == [to |-> "nobody", asked |-> 0, token |-> None]

-----------------------------------------------------------------------------
(* The configuration                                                       *)

\* emulatorHost and PUBSUB_EMULATOR_HOST, "none" when empty; the last of them is
\* neither a host nor host:port, and is refused.
Hosts == {"none", "host", "http://host", "https://host", "host/path"}

\* The scheme is taken off the host and kept beside it.
NormalizeEmulatorHost(c) ==
    [c EXCEPT !.emulatorHost = IF c.emulatorHost = "none" THEN "none" ELSE "host",
              !.emulatorUseHttps = c.emulatorHost = "https://host"]

\* The environment fills what the configuration has left empty.
ApplyRuntimeEnvironment(c, environment) ==
    LET hosted == IF c.emulatorHost # "none" THEN c
                  ELSE NormalizeEmulatorHost(
                           [c EXCEPT !.emulatorHost = environment.emulatorHost])
    IN  [hosted EXCEPT
            !.accessToken = @ \/ environment.accessToken,
            !.credentialsFile = @ \/ environment.credentialsFile]

EndpointBase(c) ==
    IF c.emulatorHost = "none" THEN "https://pubsub.googleapis.com"
    ELSE IF c.emulatorUseHttps THEN "https://host" ELSE "http://host"

Settings == [emulatorHost : Hosts \ {"host/path"}, accessToken : BOOLEAN,
             credentialsFile : BOOLEAN]

Init ==
    /\ \E configured, environment \in Settings :
           config = ApplyRuntimeEnvironment(
               NormalizeEmulatorHost(
                   [emulatorUseHttps |-> FALSE,
                    emulatorHost |-> configured.emulatorHost,
                    accessToken |-> configured.accessToken,
                    credentialsFile |-> configured.credentialsFile]),
               environment)
    /\ now = 0
    /\ token = None
    /\ expiry = 0
    /\ exchange = Idle
    /\ sent = [to |-> "nowhere", with |-> None, at |-> 0]

-----------------------------------------------------------------------------
(* One request: BearerToken chooses, and may first have to exchange.       *)

Send(with) == sent' = [to |-> EndpointBase(config), with |-> with, at |-> now]

Cached == token # None /\ now < expiry

\* An emulator gets none, a configured token is sent as it is.
SendAtOnce ==
    /\ exchange = Idle
    /\ \/ config.emulatorHost # "none" /\ Send(None)
       \/ /\ config.emulatorHost = "none" /\ config.accessToken
          /\ Send([from |-> "configuration", end |-> 0, life |-> 0])
       \/ /\ config.emulatorHost = "none" /\ ~config.accessToken /\ Cached
          /\ Send(token)
    /\ UNCHANGED <<config, now, token, expiry, exchange>>

StartExchange ==
    /\ exchange = Idle
    /\ config.emulatorHost = "none" /\ ~config.accessToken /\ ~Cached
    /\ exchange' = [to |-> IF config.credentialsFile THEN "token endpoint"
                                                     ELSE "metadata server",
                    asked |-> now, token |-> None]
    /\ UNCHANGED <<config, now, token, expiry, sent>>

\* The server issues a token that lives from now on (external).
Issue(life) ==
    /\ exchange # Idle /\ exchange.token = None
    /\ exchange' = [exchange EXCEPT
           !.token = [from |-> exchange.to, end |-> now + life, life |-> life]]
    /\ UNCHANGED <<config, now, token, expiry, sent>>

\* Mistake: no margin.
ShortenedByNothing(life) == life

Shortened(life) == IF life > 3 THEN life - 2 ELSE life

\* Counted from before the exchange.
RefreshFromServiceAccount ==
    /\ exchange.to = "token endpoint" /\ exchange.token # None
    /\ token' = exchange.token
    /\ expiry' = exchange.asked + Shortened(exchange.token.life)
    /\ Send(exchange.token)
    /\ exchange' = Idle
    /\ UNCHANGED <<config, now>>

\* Counted from the answer.
TryMetadataToken ==
    /\ exchange.to = "metadata server" /\ exchange.token # None
    /\ token' = exchange.token
    /\ expiry' = now + Shortened(exchange.token.life)
    /\ Send(exchange.token)
    /\ exchange' = Idle
    /\ UNCHANGED <<config, now>>

\* The request fails, and the cache is left as it was.
ExchangeFails ==
    /\ exchange # Idle
    /\ exchange' = Idle
    /\ UNCHANGED <<config, now, token, expiry, sent>>

Tick ==
    /\ now < MaxTime
    /\ exchange # Idle => now = exchange.asked
    /\ now' = now + 1
    /\ UNCHANGED <<config, token, expiry, exchange, sent>>

Next ==
    \/ SendAtOnce \/ StartExchange \/ RefreshFromServiceAccount \/ TryMetadataToken
    \/ ExchangeFails \/ Tick
    \/ \E life \in Lives : Issue(life)

Spec == Init /\ [][Next]_vars

-----------------------------------------------------------------------------

\* A token that was exchanged for is sent only to Google's own endpoint and, if
\* it was given more than 90 seconds, only while it still has a unit to live:
\* the 15 seconds a request may take are within it.
TokenIsGoodNow ==
    \A from \in {"token endpoint", "metadata server"} :
        sent' # sent /\ sent'.with.from = from =>
            /\ sent'.to = "https://pubsub.googleapis.com"
            /\ sent'.with.life > 3 => now + 1 <= sent'.with.end
SentTokenIsGood == [][TokenIsGoodNow]_vars
=============================================================================
