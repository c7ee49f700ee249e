---------------------------- MODULE ProviderAdapters ----------------------------
(***************************************************************************)
(* What a delivery calls to send a message: Firebase for every device of a *)
(* user under a cached access token, Twilio for a phone number, or the     *)
(* local adapter of the channel that only logs.  Each handler sends one    *)
(* message, and sends it again when an attempt has failed.                 *)
(***************************************************************************)
EXTENDS Requests

CONSTANTS
  Devices,     \* tokens of the user's devices
  TokenTtl,    \* expires_in of an access token
  TokenMargin, \* the time before its expiry in which it is not used any more
  MaxSends,    \* bound on the attempts
  MaxLatency   \* how long an answer of the token endpoint may take

\* 60 s of margin, an hour of validity.  No timeout in the code bounds the latency.
ASSUME TokenAssumption ==
  /\ {TokenTtl, TokenMargin, MaxLatency} \subseteq Nat
  /\ MaxLatency <= TokenMargin /\ TokenMargin < TokenTtl

Channels == {"push", "sms", "whatsapp"}
NoToken == [until |-> NULL, expires |-> NULL]

VARIABLES
  channel,  \* of the message each handler sends
  vendors,  \* channels configured for their vendor when the process started
  cache,    \* the access token: until when it is cached, when it expires
  outcome,  \* what the last attempt of each handler has returned
  accepted, \* the recipients whose message a provider has accepted
  stray     \* posts of an attempt that is over

adapterState == <<channel, vendors, cache, outcome, accepted, stray>>

AdaptersInit ==
  /\ channel \in [Handlers -> Channels]
  /\ vendors \in SUBSET Channels
  /\ cache = NoToken
  /\ outcome = [h \in Handlers |-> "none"]
  /\ accepted = [h \in Handlers |-> {}]
  /\ stray = {}

Recipients(h) == IF channel[h] = "push" THEN Devices ELSE {"number"}

\* The first attempt, or the retry of a failed one.
MayStart(h) == begun < MaxSends /\ outcome[h] \in {"none", "failed"}

\* useFactory of each channel: the local adapter, or the vendor's.
Local(h) == channel[h] \notin vendors
Firebase(h) == channel[h] \in vendors /\ channel[h] = "push"
Twilio(h) == channel[h] \in vendors /\ channel[h] # "push"

\* The local adapters of the three channels log, and accept everything.
LocalSend(h) ==
  /\ MayStart(h) /\ Local(h)
  /\ outcome' = [outcome EXCEPT ![h] = "sent"]
  /\ accepted' = [accepted EXCEPT ![h] = Recipients(h)]
  /\ Single
  /\ UNCHANGED <<channel, vendors, cache, stray>>

Post(h, expires) ==
  [waiting |-> Recipients(h), started |-> now, expires |-> expires]

\* TwilioClient.send: one request to one number, with a key that stays valid.
TwilioSend(h) ==
  /\ MayStart(h) /\ Twilio(h)
  /\ Begin(h, "post", Post(h, NULL))
  /\ UNCHANGED adapterState

TokenUsable == cache.until > now + TokenMargin

\* getAccessToken, when the cached token serves: the posts begin at once.
SendWithCachedToken(h) ==
  /\ MayStart(h) /\ Firebase(h)
  /\ TokenUsable
  /\ Begin(h, "post", Post(h, cache.expires))
  /\ UNCHANGED adapterState

\* Otherwise a token is asked for; nothing keeps two sends from both asking.
AskForToken(h) ==
  /\ MayStart(h) /\ Firebase(h)
  /\ ~TokenUsable
  /\ Begin(h, "token", [started |-> now])
  /\ UNCHANGED adapterState

\* A token is valid from when the endpoint made it, and cached as if it were
\* from when the answer is here.
TokenAnswers(h) ==
  /\ at[h] = "token"
  /\ \E made \in mem[h].started .. now :
       /\ cache' = [until |-> now + TokenTtl, expires |-> made + TokenTtl]
       /\ Proceed(h, "post", Post(h, made + TokenTtl))
  /\ UNCHANGED <<channel, vendors, outcome, accepted, stray>>

TokenRefused(h) ==
  /\ at[h] = "token"
  /\ Finish(h)
  /\ outcome' = [outcome EXCEPT ![h] = "failed"]
  /\ UNCHANGED <<channel, vendors, cache, accepted, stray>>

\* Bug: the first answer resolves, as with Promise.any.
ResolvedByAny(waiting) == TRUE

\* Promise.all resolves with the last answer.
Resolved(waiting) == waiting = {}

PostAccepted(h, d) ==
  LET waiting == mem[h].waiting \ {d} IN
  /\ at[h] = "post"
  /\ d \in mem[h].waiting
  /\ accepted' = [accepted EXCEPT ![h] = @ \cup {d}]
  /\ IF Resolved(waiting)
     THEN Finish(h) /\ outcome' = [outcome EXCEPT ![h] = "sent"]
     ELSE Proceed(h, "post", [mem[h] EXCEPT !.waiting = waiting]) /\ UNCHANGED outcome
  /\ UNCHANGED <<channel, vendors, cache, stray>>

\* It rejects with the first error: a status that is not ok, or an answer
\* without an identifier of the message.  The other posts still go on.
PostRefused(h, d) ==
  /\ at[h] = "post"
  /\ d \in mem[h].waiting
  /\ Finish(h)
  /\ outcome' = [outcome EXCEPT ![h] = "failed"]
  /\ stray' = stray \cup {<<h, e>> : e \in mem[h].waiting \ {d}}
  /\ UNCHANGED <<channel, vendors, cache, accepted>>

StrayAnswers(h, d) ==
  /\ <<h, d>> \in stray
  /\ stray' = stray \ {<<h, d>>}
  /\ accepted' \in {accepted, [accepted EXCEPT ![h] = @ \cup {d}]}
  /\ UNCHANGED <<channel, vendors, cache, outcome, environment>>

AdaptersTick ==
  /\ \A h \in Handlers : at[h] = "token" => now - mem[h].started < MaxLatency
  /\ PassTime
  /\ UNCHANGED adapterState

AdaptersNext ==
  \/ AdaptersTick
  \/ \E h \in Handlers :
       \/ LocalSend(h) \/ TwilioSend(h)
       \/ SendWithCachedToken(h) \/ AskForToken(h) \/ TokenAnswers(h) \/ TokenRefused(h)
       \/ \E d \in Devices \cup {"number"} :
            PostAccepted(h, d) \/ PostRefused(h, d) \/ StrayAnswers(h, d)

-----------------------------------------------------------------------------
AdaptersTypeOK ==
  /\ cache.until \in Nat \cup {NULL}
  /\ cache.expires <= cache.until
  /\ outcome \in [Handlers -> {"none", "failed", "sent"}]
  /\ \A h \in Handlers : accepted[h] \subseteq Recipients(h)
  /\ stray \subseteq Handlers \X (Devices \cup {"number"})

(* The cache takes a token to expire later than it does, by the time its   *)
(* answer has taken, and concurrent sends replace it: still no post begins *)
(* with a token that has expired.                                          *)
BearerValid ==
  \A h \in Handlers :
    at[h] = "post" /\ Firebase(h) => mem[h].started < mem[h].expires

(* A message counts as sent only when a provider has accepted it for every *)
(* recipient, whatever became of earlier attempts and their late answers.  *)
SentReachesAll ==
  \A h \in Handlers : outcome[h] = "sent" => accepted[h] = Recipients(h)

(* A push is posted under a token that has not expired, and counts as sent *)
(* only when every recipient's provider has accepted it.                   *)
PushesSound == BearerValid /\ SentReachesAll
=============================================================================
