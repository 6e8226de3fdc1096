-------------------------------- MODULE Session --------------------------------
(***************************************************************************)
(* The session of a browser tab: the login page and its proof of work, the *)
(* routes that grant a token, the provider that keeps one ConsoleClient    *)
(* per token (ws-context.tsx), and sign-out. Each client is reduced to its *)
(* socket; ConsoleClient models one in full.                               *)
(*                                                                         *)
(* A token is the number of the login that granted it; NoData is none. The *)
(* client of a token has its number. The client that is made without a     *)
(* token never connects and is left out.                                   *)
(***************************************************************************)
EXTENDS PageData, Naturals, FiniteSets

CONSTANTS
    MaxLogins,      \* logins that succeed
    MaxFaults,      \* lost sockets, failed logins, expiries and new server secrets
    MaxReloads      \* reloads of the page and changes made by another tab

ASSUME SessionAssumption ==
    /\ MaxLogins \in Nat \ {0} /\ {MaxFaults, MaxReloads} \subseteq Nat
    /\ NoData \notin Nat

VARIABLES
    token,          \* the token of the latest commit
    askedSession,   \* the token state that the next commit shows
    storage,        \* localStorage, shared by the tabs
    socketOf,       \* the socket of each client
    deferred,       \* the client whose close waits in pendingCloseRef
    pill,           \* the status that the page shows, set by any client
    pageStage,      \* the login page
    challenge,      \* the proof-of-work challenge in hand
    signOutOpen,
    valid,          \* tokens that the server accepts
    secretNow,      \* its signing secret, by number
    logins, faults, reloads

provider    == <<token, askedSession, storage, deferred>>
loginPage   == <<pageStage, challenge>>
authServer  == <<valid, secretNow, logins>>
sessionVars == <<provider, socketOf, pill, loginPage, signOutOpen, authServer, faults, reloads>>

Granted == 1..MaxLogins

NoSocket == [status |-> "closed", retry |-> FALSE, closing |-> FALSE]

Reconnecting == [status |-> "closed", retry |-> TRUE, closing |-> FALSE]

Connecting == [status |-> "connecting", retry |-> FALSE, closing |-> FALSE]

\* A tab is opened, with the token that an earlier one left or with none.
SessionInit ==
    /\ storage \in {NoData} \cup (1..1)
    /\ token = NoData /\ askedSession = storage
    /\ socketOf = [c \in Granted |-> NoSocket]
    /\ deferred = NoData
    /\ pill = "closed"
    /\ pageStage = "idle" /\ challenge = NoData
    /\ signOutOpen = FALSE
    /\ valid = IF storage = NoData THEN {} ELSE {storage}
    /\ secretNow = 0
    /\ logins = IF storage = NoData THEN 0 ELSE 1
    /\ faults = 0 /\ reloads = 0

Fault == faults < MaxFaults /\ faults' = faults + 1

-----------------------------------------------------------------------------
(* The provider.                                                           *)

SetToken(t) == storage' = t /\ askedSession' = t

\* client.connect, on a client that was just made.
Connects(sockets, t) == IF t = NoData THEN sockets ELSE [sockets EXCEPT ![t] = Connecting]

\* Mutant: the cleanup of the effect schedules nothing.
NeverDeferred(old, new) == IF new = NoData THEN deferred ELSE NoData

\* The cleanup of the old effect defers the close of its client; the new effect
\* cancels the close that is waiting.
Deferral(old, new) ==
    IF new # NoData THEN NoData
    ELSE IF old # NoData THEN old ELSE deferred

\* React commits the token and runs the effects; the gate shows the login page,
\* or leaves it.
CommitToken ==
    /\ askedSession # token
    /\ token' = askedSession
    /\ deferred' = Deferral(token, askedSession)
    /\ socketOf' = Connects(socketOf, askedSession)
    /\ pill' = IF askedSession = NoData THEN pill ELSE "connecting"
    /\ pageStage' = "idle" /\ challenge' = NoData
    /\ signOutOpen' = FALSE
    /\ UNCHANGED <<askedSession, storage, authServer, faults, reloads>>

\* client.close: no reconnect, and the closing handshake begins if there is a
\* socket.
ClosedByClient(s) == [s EXCEPT !.retry = FALSE, !.closing = (s.status # "closed")]

DeferredClose ==
    /\ deferred # NoData
    /\ socketOf' = [socketOf EXCEPT ![deferred] = ClosedByClient(@)]
    /\ deferred' = NoData
    /\ UNCHANGED <<token, askedSession, storage, pill, loginPage, signOutOpen, authServer,
                   faults, reloads>>

SignOut(confirmed) ==
    /\ token # NoData
    /\ signOutOpen' = ~signOutOpen
    /\ confirmed => signOutOpen
    /\ IF confirmed THEN SetToken(NoData) ELSE UNCHANGED <<askedSession, storage>>
    /\ UNCHANGED <<token, deferred, socketOf, pill, loginPage, authServer, faults, reloads>>

-----------------------------------------------------------------------------
(* The sockets: each client reports its status to the same setStatus.      *)

SocketOpens(c) ==
    /\ socketOf[c].status = "connecting" /\ ~socketOf[c].closing
    /\ socketOf' = [socketOf EXCEPT ![c].status = "open"]
    /\ pill' = "open"
    /\ UNCHANGED <<provider, loginPage, signOutOpen, authServer, faults, reloads>>

\* onclose: a client that was not closed arms its reconnect timer.
SocketLost(c) ==
    /\ socketOf[c].status # "closed"
    /\ IF socketOf[c].closing THEN UNCHANGED faults ELSE Fault
    /\ socketOf' = [socketOf EXCEPT ![c] = IF @.closing THEN NoSocket ELSE Reconnecting]
    /\ pill' = "closed"
    /\ UNCHANGED <<provider, loginPage, signOutOpen, authServer, reloads>>

\* 4401: the server refuses the token after the handshake. The handler clears the
\* token of the page, whichever client reports.
SocketRefused(c) ==
    /\ socketOf[c].status = "open" /\ c \notin valid
    /\ socketOf' = [socketOf EXCEPT ![c] = NoSocket]
    /\ pill' = "closed"
    /\ SetToken(NoData)
    /\ UNCHANGED <<token, deferred, loginPage, signOutOpen, authServer, faults, reloads>>

SocketRetries(c) ==
    /\ socketOf[c].retry
    /\ socketOf' = [socketOf EXCEPT ![c] = Connecting]
    /\ pill' = "connecting"
    /\ UNCHANGED <<provider, loginPage, signOutOpen, authServer, faults, reloads>>

-----------------------------------------------------------------------------
(* Login: a challenge, its solution, and the credentials.                  *)

\* The form is disabled while a login is under way.
FormEnabled == pageStage \in {"idle", "error"}

\* Nobody fills the form within the tick that the deferred close takes.
SubmitLogin ==
    /\ token = NoData /\ askedSession = NoData /\ deferred = NoData
    /\ FormEnabled
    /\ pageStage' = "challenge"
    /\ UNCHANGED <<provider, socketOf, pill, challenge, signOutOpen, authServer, faults, reloads>>

ChallengeIssued ==
    /\ pageStage = "challenge"
    /\ challenge' = [signedWith |-> secretNow, fresh |-> TRUE]
    /\ pageStage' = "solving"
    /\ UNCHANGED <<provider, socketOf, pill, signOutOpen, authServer, faults, reloads>>

ChallengeSolved ==
    /\ pageStage = "solving"
    /\ pageStage' = "submitting"
    /\ UNCHANGED <<provider, socketOf, pill, challenge, signOutOpen, authServer, faults, reloads>>

PowAccepted == challenge.signedWith = secretNow /\ challenge.fresh

\* POST /auth/login: a new token.
LoginGranted ==
    /\ pageStage = "submitting" /\ PowAccepted /\ logins < MaxLogins
    /\ logins' = logins + 1
    /\ valid' = valid \cup {logins'}
    /\ SetToken(logins')
    /\ pageStage' = "granted"
    /\ UNCHANGED <<token, deferred, socketOf, pill, challenge, signOutOpen, secretNow,
                   faults, reloads>>

\* A challenge that is not accepted; wrong credentials, no users, the rate limit;
\* or no answer to one of the calls.
LoginRefused ==
    /\ \/ pageStage = "submitting" /\ ~PowAccepted /\ UNCHANGED faults
       \/ pageStage \in {"challenge", "submitting"} /\ Fault
    /\ pageStage' = "error" /\ challenge' = NoData
    /\ UNCHANGED <<provider, socketOf, pill, signOutOpen, authServer, reloads>>

ChallengeExpires ==
    /\ challenge # NoData /\ challenge.fresh /\ Fault
    /\ challenge' = [challenge EXCEPT !.fresh = FALSE]
    /\ UNCHANGED <<provider, socketOf, pill, pageStage, signOutOpen, authServer, reloads>>

TokenExpires(t) ==
    /\ t \in valid /\ Fault
    /\ valid' = valid \ {t}
    /\ UNCHANGED <<provider, socketOf, pill, loginPage, signOutOpen, secretNow, logins, reloads>>

\* The server restarts with another secret: no token and no challenge is good.
SecretChanged ==
    /\ Fault
    /\ secretNow' = secretNow + 1 /\ valid' = {}
    /\ UNCHANGED <<provider, socketOf, pill, loginPage, signOutOpen, logins, reloads>>

-----------------------------------------------------------------------------
(* Tabs.                                                                   *)

ReloadPage ==
    /\ reloads < MaxReloads /\ reloads' = reloads + 1
    /\ token' = NoData /\ askedSession' = storage /\ deferred' = NoData
    /\ socketOf' = [c \in Granted |-> NoSocket]
    /\ pill' = "closed" /\ pageStage' = "idle" /\ challenge' = NoData /\ signOutOpen' = FALSE
    /\ UNCHANGED <<storage, authServer, faults>>

\* Another tab signs out, which this one does not hear.
OtherTabSignsOut ==
    /\ reloads < MaxReloads /\ reloads' = reloads + 1
    /\ storage # NoData /\ storage' = NoData
    /\ UNCHANGED <<token, askedSession, deferred, socketOf, pill, loginPage, signOutOpen,
                   authServer, faults>>

SessionNext ==
    \/ CommitToken \/ DeferredClose
    \/ SubmitLogin \/ ChallengeIssued \/ ChallengeSolved \/ LoginGranted \/ LoginRefused
    \/ ChallengeExpires \/ SecretChanged \/ ReloadPage \/ OtherTabSignsOut
    \/ \E confirmed \in BOOLEAN : SignOut(confirmed)
    \/ \E c \in Granted :
        SocketOpens(c) \/ SocketLost(c) \/ SocketRefused(c) \/ SocketRetries(c) \/ TokenExpires(c)

SessionSpec == SessionInit /\ [][SessionNext]_sessionVars

-----------------------------------------------------------------------------
Socket ==
    [status : {"closed", "connecting", "open"}, retry : BOOLEAN, closing : BOOLEAN]

SessionTypeOK ==
    /\ {token, askedSession, storage, deferred} \subseteq Granted \cup {NoData}
    /\ socketOf \in [Granted -> Socket]
    /\ pill \in {"closed", "connecting", "open"}
    /\ pageStage \in {"idle", "challenge", "solving", "submitting", "granted", "error"}
    /\ challenge \in [signedWith : Nat, fresh : BOOLEAN] \cup {NoData}
    /\ signOutOpen \in BOOLEAN
    /\ logins \in 0..MaxLogins /\ valid \subseteq 1..logins
    /\ {secretNow, faults, reloads} \subseteq Nat

Idle(c) == socketOf[c].status = "closed" /\ ~socketOf[c].retry

\* Once the tick of the deferred close is over, no client of an ended session
\* holds a socket that is not closing, nor will it open one: sign-out, a refused
\* token and a lost connection may come in any order, before or after the next
\* login.
OldClientsRetire ==
    \A c \in Granted \ {token, deferred} : Idle(c) \/ (socketOf[c].closing /\ ~socketOf[c].retry)

\* The pill shows the status of the client of the session.
PillIsTrue == token # NoData => pill = socketOf[token].status

\* Only a sign-out or the refusal of its own token ends a session.
EndsForCause ==
    [][token # NoData /\ askedSession = token /\ askedSession' = NoData
       => signOutOpen \/ socketOf[token] # socketOf'[token] \/ reloads' # reloads]_sessionVars
=============================================================================
