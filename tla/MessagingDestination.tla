-------------------------- MODULE MessagingDestination --------------------------
(***************************************************************************)
(* How one user can be reached: a push device and its endpoint, the phone  *)
(* number with the codes that verify it for SMS and for WhatsApp, and the  *)
(* channels the user switched on.                                          *)
(*                                                                         *)
(* A code belongs to the user's destination, and confirms the number which *)
(* that has when the code is entered, be it the one the code was sent to   *)
(* or not.  A wrong code changes nothing: confirmVerification counts the   *)
(* attempt and then throws inside the transaction, which takes the count   *)
(* back, so that attempts are not limited.                                 *)
(***************************************************************************)
EXTENDS Requests

CONSTANTS
  Numbers,       \* phone numbers the user enters
  CodeTtl,       \* verificationCodeTtlSeconds
  ResendCooldown \* verificationResendCooldownSeconds

NotificationEndpointStatus == {"ACTIVE", "REVOKED"}
WhatsAppConnectionStatus == {"NOT_CONNECTED", "PENDING", "VERIFIED", "REVOKED"}
PhoneVerificationPurpose == {"PHONE", "WHATSAPP"}
NotificationChannel == {"APP_PUSH", "SMS", "WHATSAPP"}
NoNumber == "none"

ASSUME VerificationAssumption ==
  /\ CodeTtl \in Nat \ {0} /\ ResendCooldown \in Nat
  /\ NoNumber \notin Numbers

NoCode == [issuedAt |-> NULL, sentTo |-> NoNumber, uses |-> 0]

VARIABLES
  device,       \* the device_registrations row: "none", "live" or "revoked"
  pushEndpoint, \* status of its endpoint, "NONE" without a row
  wanted,       \* history: did a registration end after the last revocation?
  number,       \* phone_number of the messaging destination
  verified,     \* is phone_verified_at set?
  whatsapp,     \* whatsapp_status
  waEndpoint,   \* status of each number's WhatsApp endpoint
  code,         \* the latest phone_verifications row of each purpose
  confirmed,    \* history: the number at the last confirmation of each purpose
  enabled       \* channels enabled in notification_preferences

deviceVars == <<device, pushEndpoint, wanted>>
phoneVars == <<number, verified, whatsapp, waEndpoint, code, confirmed>>
messagingVars == <<deviceVars, phoneVars, enabled, environment>>

MessagingInit ==
  /\ EnvironmentInit
  /\ device = "none"
  /\ pushEndpoint = "NONE"
  /\ wanted = FALSE
  /\ number = NoNumber
  /\ verified = FALSE
  /\ whatsapp = "NOT_CONNECTED"
  /\ waEndpoint = [n \in Numbers |-> "NONE"]
  /\ code = [p \in PhoneVerificationPurpose |-> NoCode]
  /\ confirmed = [p \in PhoneVerificationPurpose |-> NoNumber]
  /\ enabled = {}

-----------------------------------------------------------------------------
(* A device is registered, and revoked, by two statements each.            *)

Reachable == device = "live" /\ pushEndpoint = "ACTIVE"

RegisterEndpoint(h) ==
  /\ Begin(h, "register", Nothing)
  /\ pushEndpoint' = "ACTIVE"
  /\ UNCHANGED <<device, wanted, phoneVars, enabled>>

RegisterDevice(h) ==
  /\ at[h] = "register"
  /\ device' = "live"
  /\ wanted' = TRUE
  /\ Finish(h)
  /\ UNCHANGED <<pushEndpoint, phoneVars, enabled>>

RevokeRegistration(h) ==
  /\ device = "live"
  /\ Begin(h, "revoke", Nothing)
  /\ device' = "revoked"
  /\ UNCHANGED <<pushEndpoint, wanted, phoneVars, enabled>>

RevokeEndpoint(h) ==
  /\ at[h] = "revoke"
  /\ pushEndpoint' = "REVOKED"
  /\ wanted' = FALSE
  /\ Finish(h)
  /\ UNCHANGED <<device, phoneVars, enabled>>

-----------------------------------------------------------------------------
(* startVerification: the cooldown, the destination, the cooldown again    *)
(* under the advisory lock together with the code's insert, the message.   *)

CoolingDown(p) ==
  code[p].issuedAt # NULL /\ code[p].issuedAt >= now - ResendCooldown

\* upsertMessagingEndpoint: revoked before or not, it is active.
Upserted(n) == [waEndpoint EXCEPT ![n] = "ACTIVE"]

StartVerification(h, p, n) ==
  /\ ~CoolingDown(p)
  /\ Begin(h, "ensure", [purpose |-> p, number |-> n])
  /\ UNCHANGED <<deviceVars, phoneVars, enabled>>

\* Bug: the number before is not looked at.
ChangedNever(n) == FALSE

Changed(n) == number \notin {NoNumber, n}

EnsureDestination(h) ==
  LET n == mem[h].number
      connects == mem[h].purpose = "WHATSAPP"
  IN
  /\ at[h] = "ensure"
  /\ number' = n
  /\ verified' = (verified /\ ~Changed(n))
  /\ whatsapp' = IF connects THEN "PENDING" ELSE IF Changed(n) THEN "REVOKED" ELSE whatsapp
  /\ waEndpoint' = Upserted(n)
  /\ Proceed(h, "create", mem[h])
  /\ UNCHANGED <<code, confirmed, deviceVars, enabled>>

\* The unique user and phone number refuse a destination inserted meanwhile.
EnsureRefused(h) ==
  /\ at[h] = "ensure"
  /\ Finish(h)
  /\ UNCHANGED <<deviceVars, phoneVars, enabled>>

\* Bug: the latest row is read without a lock.
UnlockedAlways(p) == TRUE

\* FOR UPDATE of the latest row: a confirmation holds it to its commit.
Unlocked(p) == \A h \in Handlers : at[h] = "complete" => mem[h].purpose # p

MayCreate(p) == Unlocked(p) /\ ~CoolingDown(p)

NewCode(n) == [issuedAt |-> now, sentTo |-> n, uses |-> 0]

\* Whether the provider then delivers the code changes nothing here.
CreateVerification(h) ==
  LET p == mem[h].purpose IN
  /\ at[h] = "create"
  /\ MayCreate(p)
  /\ code' = [code EXCEPT ![p] = NewCode(mem[h].number)]
  /\ Finish(h)
  /\ UNCHANGED <<number, verified, whatsapp, waEndpoint, confirmed, deviceVars, enabled>>

CreateRefused(h) ==
  /\ at[h] = "create"
  /\ Unlocked(mem[h].purpose)
  /\ CoolingDown(mem[h].purpose)
  /\ Finish(h)
  /\ UNCHANGED <<deviceVars, phoneVars, enabled>>

-----------------------------------------------------------------------------
(* confirmVerification with the right code, and disconnectWhatsApp.        *)

Confirmable(p) ==
  /\ number # NoNumber
  /\ code[p].issuedAt # NULL
  /\ code[p].uses = 0
  /\ code[p].issuedAt + CodeTtl > now
  /\ Unlocked(p)

FindVerification(h, p) ==
  /\ Confirmable(p)
  /\ Begin(h, "complete", [purpose |-> p])
  /\ UNCHANGED <<deviceVars, phoneVars, enabled>>

CompleteVerification(h) ==
  LET p == mem[h].purpose IN
  /\ at[h] = "complete"
  /\ code' = [code EXCEPT ![p].uses = @ + 1]
  /\ confirmed' = [confirmed EXCEPT ![p] = number]
  /\ \/ p = "PHONE" /\ verified' = TRUE /\ UNCHANGED <<whatsapp, waEndpoint>>
     \/ /\ p = "WHATSAPP"
        /\ whatsapp' = "VERIFIED"
        /\ waEndpoint' = [waEndpoint EXCEPT ![number] = "ACTIVE"]
        /\ UNCHANGED verified
  /\ Finish(h)
  /\ UNCHANGED <<number, deviceVars, enabled>>

DisconnectDestination(h) ==
  /\ whatsapp = "VERIFIED"
  /\ whatsapp' = "REVOKED"
  /\ Begin(h, "disconnect", Nothing)
  /\ UNCHANGED <<number, verified, waEndpoint, code, confirmed, deviceVars, enabled>>

DisconnectEndpoint(h) ==
  /\ at[h] = "disconnect"
  /\ waEndpoint' = [waEndpoint EXCEPT ![number] = "REVOKED"]
  /\ Finish(h)
  /\ UNCHANGED <<number, verified, whatsapp, code, confirmed, deviceVars, enabled>>

-----------------------------------------------------------------------------
(* Preferences: a channel is switched on only when it was available.       *)

Available(c) ==
  CASE c = "APP_PUSH" -> Reachable
    [] c = "SMS" -> verified
    [] c = "WHATSAPP" -> whatsapp = "VERIFIED" /\ waEndpoint[number] = "ACTIVE"

CheckAvailability(h, c, on) ==
  /\ on => Available(c)
  /\ Begin(h, "prefer", [channel |-> c, on |-> on])
  /\ UNCHANGED <<deviceVars, phoneVars, enabled>>

UpdatePreference(h) ==
  /\ at[h] = "prefer"
  /\ enabled' = IF mem[h].on THEN enabled \cup {mem[h].channel}
                ELSE enabled \ {mem[h].channel}
  /\ Finish(h)
  /\ UNCHANGED <<deviceVars, phoneVars>>

MessagingTick == PassTime /\ UNCHANGED <<deviceVars, phoneVars, enabled>>

MessagingNext ==
  \/ \E h \in Handlers :
       \/ RegisterEndpoint(h) \/ RegisterDevice(h)
       \/ RevokeRegistration(h) \/ RevokeEndpoint(h)
       \/ EnsureDestination(h) \/ EnsureRefused(h)
       \/ CreateVerification(h) \/ CreateRefused(h) \/ CompleteVerification(h)
       \/ DisconnectDestination(h) \/ DisconnectEndpoint(h) \/ UpdatePreference(h)
       \/ \E p \in PhoneVerificationPurpose :
            \/ FindVerification(h, p)
            \/ \E n \in Numbers : StartVerification(h, p, n)
       \/ \E c \in NotificationChannel, on \in BOOLEAN : CheckAvailability(h, c, on)
  \/ MessagingTick

MessagingSpec == MessagingInit /\ [][MessagingNext]_messagingVars

-----------------------------------------------------------------------------
MessagingTypeOK ==
  /\ device \in {"none", "live", "revoked"}
  /\ pushEndpoint \in {"NONE"} \cup NotificationEndpointStatus
  /\ number \in {NoNumber} \cup Numbers
  /\ whatsapp \in WhatsAppConnectionStatus
  /\ waEndpoint \in [Numbers -> {"NONE"} \cup NotificationEndpointStatus]
  /\ code \in [PhoneVerificationPurpose ->
       [issuedAt : {NULL} \cup Times, sentTo : {NoNumber} \cup Numbers, uses : Nat]]
  /\ confirmed \in [PhoneVerificationPurpose -> {NoNumber} \cup Numbers]
  /\ enabled \subseteq NotificationChannel
  /\ verified \/ whatsapp # "NOT_CONNECTED" => number # NoNumber

(* Two codes of a purpose are more than the cooldown apart: of two starts  *)
(* that both pass the first test, the transaction refuses the later.       *)
CodesAreSpaced ==
  [][\A p \in PhoneVerificationPurpose :
       code'[p].issuedAt # code[p].issuedAt => ~CoolingDown(p)]_code

(* A code verifies at most once: two confirmations of the same code queue  *)
(* for its row, and the second finds it consumed.                          *)
CodeUsedOnce == \A p \in PhoneVerificationPurpose : code[p].uses <= 1

(* A number counts as verified, for SMS or for WhatsApp, only if a code was *)
(* confirmed while it was the user's number: whatever starts and confirms  *)
(* overlap, a change of the number takes the verification back.  Not that  *)
(* the code was sent to this number: a start with another number, whose    *)
(* code is refused or of the other purpose, leaves the code before it.     *)
VerifiedNumber ==
  /\ verified => confirmed["PHONE"] = number
  /\ whatsapp = "VERIFIED" => confirmed["WHATSAPP"] = number

(* Pushes reach a device only if its user registered it after the last     *)
(* revocation, or is registering it, whichever statements interleave.      *)
RevokedDeviceSilent ==
  Reachable => wanted \/ \E h \in Handlers : at[h] = "register"

(* A code is used once, no code is issued within the cooldown of the one   *)
(* before, a verification does not outlast the number it was given to, and *)
(* a device that is revoked hears nothing any more.                        *)
MessagingSound ==
  [](CodeUsedOnce /\ VerifiedNumber /\ RevokedDeviceSilent) /\ CodesAreSpaced
=============================================================================
