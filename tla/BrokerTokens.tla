---------------------------- MODULE BrokerTokens ----------------------------
(***************************************************************************)
(* TokenStore of the deploy broker: the ArgoCD and the application token   *)
(* in two files, made by a token command that runs when a file is missing  *)
(* or a request was rejected.  A lock per process and a file lock between  *)
(* the processes guard the command; the files are read and, by an          *)
(* administrator, written without the file lock.                           *)
(*                                                                         *)
(* A token is the number of the command, or of the administrator's token,  *)
(* it comes from; the services reject those up to expired.                 *)
(***************************************************************************)
EXTENDS Naturals, FiniteSets

CONSTANTS
    BrokerProcesses, BrokerThreads,
    ProcessOf(_),
    MaxTokens,     \* bound: commands and tokens of the administrator
    MaxRequests,   \* bound
    MaxTokenFaults      \* bound: commands that fail and processes that die

ASSUME TokensAssumption ==
    /\ "nobody" \notin BrokerThreads
    /\ MaxTokens \in Nat /\ MaxRequests \in Nat /\ MaxTokenFaults \in Nat

VARIABLES
    tokenFile,     \* of each service: a token, or 0 when it is missing or being written
    lock,          \* the threads that have the lock of their process
    flock,         \* the thread that has .refresh.lock
    at, service, refresh, token, rejected,     \* of each thread
    made,          \* the tokens that the command of a thread has given, or 0
    last,          \* the newest token
    expired,
    fills,         \* commands that ran because a file was missing
    setByHand,     \* the administrator has set a token
    requests, tokenFaults

locks == <<lock, flock>>
request == <<service, refresh, rejected>>
tokenBounds == <<requests, tokenFaults>>
tokensVars == <<tokenFile, locks, at, request, token, made, last, expired, fills,
                setByHand, tokenBounds>>

Services == {"argocd", "app"}
Nobody == "nobody"
None == 0

TokensInit ==
    /\ tokenFile = [s \in Services |-> None]
    /\ lock = {} /\ flock = Nobody
    /\ at = [t \in BrokerThreads |-> "idle"]
    /\ service = [t \in BrokerThreads |-> "argocd"]
    /\ refresh = [t \in BrokerThreads |-> FALSE]
    /\ token = [t \in BrokerThreads |-> None] /\ rejected = [t \in BrokerThreads |-> None]
    /\ made = [t \in BrokerThreads |-> None]
    /\ last = 0 /\ expired = 0
    /\ fills = {} /\ setByHand = FALSE
    /\ requests = 0 /\ tokenFaults = 0

Goto(t, l) == at' = [at EXCEPT ![t] = l]

\* A request to a service begins: get_argocd_token() or get_app_token().
Begin(t, s) ==
    /\ at[t] = "idle" /\ requests < MaxRequests
    /\ requests' = requests + 1
    /\ service' = [service EXCEPT ![t] = s]
    /\ refresh' = [refresh EXCEPT ![t] = FALSE]
    /\ rejected' = [rejected EXCEPT ![t] = None]
    /\ token' = [token EXCEPT ![t] = None]
    /\ Goto(t, "lock")
    /\ UNCHANGED <<tokenFile, locks, made, last, expired, fills, setByHand, tokenFaults>>

Lock(t) ==
    /\ at[t] = "lock"
    /\ \A u \in lock : ProcessOf(u) # ProcessOf(t)
    /\ lock' = lock \union {t}
    /\ Goto(t, IF refresh[t] THEN "flock" ELSE "read")
    /\ UNCHANGED <<tokenFile, flock, request, token, made, last, expired, fills, setByHand,
                   tokenBounds>>

\* The result of _get_token, and the end of its locks.
Return(t, value) ==
    /\ token' = [token EXCEPT ![t] = value]
    /\ lock' = lock \ {t}
    /\ flock' = IF flock = t THEN Nobody ELSE flock
    /\ Goto(t, IF value = None THEN "idle" ELSE "send")

ReadToken(t) ==
    /\ at[t] = "read"
    /\ IF tokenFile[service[t]] # None THEN Return(t, tokenFile[service[t]])
       ELSE Goto(t, "flock") /\ UNCHANGED <<token, locks>>
    /\ UNCHANGED <<tokenFile, request, made, last, expired, fills, setByHand, tokenBounds>>

FlockAlwaysChecks(t) ==
    /\ at[t] = "flock" /\ flock = Nobody
    /\ IF tokenFile[service[t]] # None THEN Return(t, tokenFile[service[t]])
       ELSE flock' = t /\ Goto(t, "command") /\ UNCHANGED <<token, lock>>
    /\ UNCHANGED <<tokenFile, request, made, last, expired, fills, setByHand, tokenBounds>>

\* With the file lock the file is read again, unless the caller wants a new token.
Flock(t) ==
    /\ at[t] = "flock" /\ flock = Nobody
    /\ IF ~refresh[t] /\ tokenFile[service[t]] # None THEN Return(t, tokenFile[service[t]])
       ELSE flock' = t /\ Goto(t, "command") /\ UNCHANGED <<token, lock>>
    /\ UNCHANGED <<tokenFile, request, made, last, expired, fills, setByHand, tokenBounds>>

\* _refresh_tokens_locked: the command gives both tokens.
Command(t) ==
    /\ at[t] = "command" /\ last < MaxTokens
    /\ last' = last + 1
    /\ made' = [made EXCEPT ![t] = last + 1]
    /\ fills' = IF refresh[t] THEN fills ELSE fills \union {last + 1}
    /\ Goto(t, "clear argocd")
    /\ UNCHANGED <<tokenFile, locks, request, token, expired, setByHand, tokenBounds>>

CommandFails(t) ==
    /\ at[t] = "command" /\ tokenFaults < MaxTokenFaults
    /\ tokenFaults' = tokenFaults + 1
    /\ Return(t, None)
    /\ UNCHANGED <<tokenFile, request, made, last, expired, fills, setByHand, requests>>

\* write_text: the file is emptied, then written.
Writes(t) ==
    /\ LET s == IF at[t] \in {"clear argocd", "write argocd"} THEN "argocd" ELSE "app"
           value == IF at[t] \in {"clear argocd", "clear app"} THEN None ELSE made[t]
       IN  tokenFile' = [tokenFile EXCEPT ![s] = value]
    /\ flock' = IF at[t] = "write app" THEN Nobody ELSE flock

WriteSecrets(t) ==
    /\ at[t] \in {"clear argocd", "write argocd", "clear app", "write app"}
    /\ Writes(t)
    /\ Goto(t, CASE at[t] = "clear argocd" -> "write argocd"
                 [] at[t] = "write argocd" -> "clear app"
                 [] at[t] = "clear app" -> "write app"
                 [] OTHER -> "read back")
    /\ UNCHANGED <<lock, request, token, made, last, expired, fills, setByHand,
                   tokenBounds>>

\* The last read is done without the file lock.
ReadBack(t) ==
    /\ at[t] = "read back"
    /\ Return(t, tokenFile[service[t]])
    /\ UNCHANGED <<tokenFile, request, made, last, expired, fills, setByHand, tokenBounds>>

\* The request with the token: a rejected one is repeated once, with a new token.
Send(t) ==
    /\ at[t] = "send"
    /\ IF token[t] > expired \/ refresh[t]
         THEN Goto(t, "idle") /\ UNCHANGED <<refresh, rejected>>
         ELSE /\ refresh' = [refresh EXCEPT ![t] = TRUE]
              /\ rejected' = [rejected EXCEPT ![t] = token[t]]
              /\ Goto(t, "lock")
    /\ UNCHANGED <<tokenFile, locks, service, token, made, last, expired, fills, setByHand,
                   tokenBounds>>

Expire ==
    /\ expired < last
    /\ expired' = last
    /\ UNCHANGED <<tokenFile, locks, at, request, token, made, last, fills, setByHand,
                   tokenBounds>>

\* set_argocd_token and set_app_token: the administrator's token is written with the lock
\* of the process and without the file lock.
SetToken(t, s) ==
    /\ at[t] = "idle" /\ last < MaxTokens
    /\ \A u \in lock : ProcessOf(u) # ProcessOf(t)
    /\ lock' = lock \union {t}
    /\ last' = last + 1
    /\ made' = [made EXCEPT ![t] = last + 1]
    /\ service' = [service EXCEPT ![t] = s]
    /\ tokenFile' = [tokenFile EXCEPT ![s] = None]
    /\ setByHand' = TRUE
    /\ Goto(t, "set")
    /\ UNCHANGED <<flock, refresh, rejected, token, expired, fills, tokenBounds>>

TokenSet(t) ==
    /\ at[t] = "set"
    /\ tokenFile' = [tokenFile EXCEPT ![service[t]] = made[t]]
    /\ lock' = lock \ {t}
    /\ Goto(t, "idle")
    /\ UNCHANGED <<flock, request, token, made, last, expired, fills, setByHand,
                   tokenBounds>>

\* The operating system releases the file lock of a process that dies.
Die(p) ==
    /\ tokenFaults < MaxTokenFaults /\ tokenFaults' = tokenFaults + 1
    /\ LET dead == {t \in BrokerThreads : ProcessOf(t) = p}
       IN  /\ at' = [t \in BrokerThreads |-> IF t \in dead THEN "idle" ELSE at[t]]
           /\ lock' = lock \ dead
           /\ flock' = IF flock \in dead THEN Nobody ELSE flock
    /\ UNCHANGED <<tokenFile, request, token, made, last, expired, fills, setByHand,
                   requests>>

Step(t) ==
    \/ Lock(t) \/ ReadToken(t) \/ Flock(t) \/ Command(t) \/ CommandFails(t)
    \/ WriteSecrets(t) \/ ReadBack(t) \/ Send(t) \/ TokenSet(t)

TokensNext ==
    \/ \E t \in BrokerThreads :
          Step(t) \/ \E s \in Services : Begin(t, s) \/ SetToken(t, s)
    \/ \E p \in BrokerProcesses : Die(p)
    \/ Expire

TokensSpec == TokensInit /\ [][TokensNext]_tokensVars

-----------------------------------------------------------------------------
(* Properties.                                                             *)

\* The state has its types; one thread of a process is in _get_token at a time, and the one
\* that has the file lock has that of its process.
TokensTypeOK ==
    /\ tokenFile \in [Services -> 0 .. MaxTokens]
    /\ token \in [BrokerThreads -> 0 .. MaxTokens] /\ expired <= last
    /\ \A t, u \in lock : ProcessOf(t) = ProcessOf(u) => t = u
    /\ flock # Nobody => flock \in lock
    /\ \A t \in BrokerThreads :
          at[t] \in {"command", "clear argocd", "write argocd", "clear app",
                                      "write app"} => flock = t

\* Two gets that miss a file, of two processes, do not both run the command: the second one
\* finds the file; more commands follow only from failures (_get_token).
FilledOnce == ~setByHand => Cardinality(fills) <= 1 + tokenFaults

\* A request that was rejected is repeated with a newer token, never with the rejected one;
\* unless the administrator, who writes without the file lock, put an older one over it.
RepeatedWithNewer ==
    ~setByHand =>
        \A t \in BrokerThreads : (at[t] = "send" /\ refresh[t]) => token[t] > rejected[t]

\* Whoever finds the file lock free finds both tokens of one command; unless a process died
\* while it wrote, or the administrator wrote a token of their own.
TokensBelongTogether ==
    (flock = Nobody /\ ~setByHand /\ tokenFaults = 0) =>
        tokenFile["argocd"] = tokenFile["app"]

\* What the run checks of the tokens: the types, and the three properties.
TokensInv == TokensTypeOK /\ FilledOnce /\ RepeatedWithNewer /\ TokensBelongTogether
=============================================================================
