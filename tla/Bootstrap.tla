----------------------------- MODULE Bootstrap -----------------------------
(***************************************************************************)
(* The certificate exchange between job tasks of the controller            *)
(* (bootstrap_mtls and connect_mtls in job.rs, cert.rs) and one agent      *)
(* (main.rs, bootstrap.rs and certs.rs of malbox-agent).                   *)
(*                                                                         *)
(* A task finds the agent by its address only and dials for ever, so a     *)
(* task whose own guest is gone reaches the next guest that is leased the  *)
(* address: Callers are all the tasks that dial the address of this agent. *)
(*                                                                         *)
(* A caller makes one CA, and asks for one CSR, in its life.  A CA, an     *)
(* agent key and an agent certificate are therefore named by the caller    *)
(* that brought the CA, that the key was made for and that signed the      *)
(* certificate (for the key it had asked for).                             *)
(***************************************************************************)
EXTENDS Naturals

CONSTANTS
  Callers,
  None,         \* an empty PEM string of AgentCerts
  LinkFaults,   \* what may fail
  MaxBoots      \* bound: reboots of the guest

LinkFaultKinds == {
  "lost",       \* a connection breaks while a call is in flight
  "csr",        \* request_csr panics: the address or the key generation
  "certs",      \* the controller cannot make or sign a certificate
  "bind",       \* the port is not free for the mTLS server
  "reboot",     \* the guest restarts, and with it the agent
  "off"         \* the guest goes down for good
}

ASSUME BootstrapAssumption ==
  /\ None \notin Callers
  /\ LinkFaults \subseteq LinkFaultKinds
  /\ MaxBoots \in Nat

VARIABLES
  pc,           \* where a caller is: dial, who, csr, switch, redial, hello,
                \* connected, failed
  rpc,          \* its call in flight: none, sent, answered, broken
  server,       \* what the agent serves: plain, gap (nothing, in the sleep
                \* after the switch), mtls, exited (process gone), off
  certs,        \* AgentCerts
  done,         \* done_tx was used
  served,       \* the certificates the mTLS server was configured with
  boots,        \* reboots so far
  asked,        \* history: callers whose request_csr this boot has handled
  panicked      \* history: a request_csr of this boot has panicked

callers == <<pc, rpc>>
agent   == <<server, certs, done, served, asked, panicked>>
bvars   == <<callers, agent, boots>>

NoCerts == [ca |-> None, key |-> None, cert |-> None]

BInit ==
  /\ pc = [c \in Callers |-> "dial"]
  /\ rpc = [c \in Callers |-> "none"]
  /\ server = "plain" /\ certs = NoCerts /\ done = FALSE /\ served = NoCerts
  /\ boots = 0 /\ asked = {} /\ panicked = FALSE

Goto(c, p, r) == pc' = [pc EXCEPT ![c] = p] /\ rpc' = [rpc EXCEPT ![c] = r]

-----------------------------------------------------------------------------
(***************************************************************************)
(* The controller's side.  A dial that fails is tried again, for ever.     *)
(***************************************************************************)
\* The mTLS server takes the connection too, and closes it when who_am_i comes
\* without a TLS handshake.
Dial(c) ==
  /\ pc[c] = "dial"
  /\ \/ server = "plain" /\ Goto(c, "who", "sent")
     \/ server = "mtls" /\ Goto(c, "who", "broken")
  /\ UNCHANGED <<agent, boots>>

\* The answer is back: make the job's certificates and ask for the CSR.
generate_job_certs(c) ==
  /\ pc[c] = "who" /\ rpc[c] = "answered"
  /\ \/ Goto(c, "csr", "sent")
     \/ "certs" \in LinkFaults /\ Goto(c, "failed", "none")
  /\ UNCHANGED <<agent, boots>>

sign_agent_csr(c) ==
  /\ pc[c] = "csr" /\ rpc[c] = "answered"
  /\ \/ Goto(c, "switch", "sent")
     \/ "certs" \in LinkFaults /\ Goto(c, "failed", "none")
  /\ UNCHANGED <<agent, boots>>

Switched(c) ==
  /\ pc[c] = "switch" /\ rpc[c] = "answered"
  /\ Goto(c, "redial", "none")
  /\ UNCHANGED <<agent, boots>>

\* The TLS handshake, which fails and is tried again while nothing listens,
\* while the plain server listens, or when another CA has signed.  TLS 1.3
\* lets the client go on before the server has checked its certificate.
Redial(c) ==
  /\ pc[c] = "redial"
  /\ server = "mtls"
  /\ served.cert = c
  /\ Goto(c, "hello", "sent")
  /\ UNCHANGED <<agent, boots>>

Greeted(c) ==
  /\ pc[c] = "hello" /\ rpc[c] = "answered"
  /\ Goto(c, "connected", "none")
  /\ UNCHANGED <<agent, boots>>

\* `?`: a call that has broken ends the task's attempt.
CallBroken(c) ==
  /\ rpc[c] = "broken"
  /\ Goto(c, "failed", "none")
  /\ UNCHANGED <<agent, boots>>

CallerStep(c) == \/ Dial(c) \/ generate_job_certs(c) \/ sign_agent_csr(c) \/ Switched(c)
                 \/ Redial(c) \/ Greeted(c) \/ CallBroken(c)

-----------------------------------------------------------------------------
(***************************************************************************)
(* The agent.  The handlers lock the state and do not await while they     *)
(* hold it, so each is one step; start_mtls_server keeps the lock while it *)
(* serves.  Connections of the plain server outlive its listener.          *)
(***************************************************************************)
\* Mutant: the lock is released once the server is configured.
NeverLocked == FALSE

Locked == server = "mtls"

Handles(c, p) == pc[c] = p /\ rpc[c] = "sent" /\ server \in {"plain", "gap", "mtls"} /\ ~Locked

Answer(c) == rpc' = [rpc EXCEPT ![c] = "answered"] /\ UNCHANGED <<pc, boots>>

\* server_ip_addr is set, and only printed.
who_am_i(c) ==
  /\ Handles(c, "who")
  /\ Answer(c)
  /\ UNCHANGED agent

\* Mutant: the first CA is kept.
request_csr_keeping_ca(c) ==
  /\ Handles(c, "csr")
  /\ asked' = asked \cup {c}
  /\ certs' = [certs EXCEPT !.ca = IF @ = None THEN c ELSE @, !.key = c]
  /\ Answer(c)
  /\ UNCHANGED <<server, done, served, panicked>>

\* The CA is stored before what may panic, the key after it.
request_csr(c) ==
  /\ Handles(c, "csr")
  /\ asked' = asked \cup {c}
  /\ \/ /\ certs' = [certs EXCEPT !.ca = c, !.key = c]
        /\ Answer(c)
        /\ UNCHANGED panicked
     \/ /\ "csr" \in LinkFaults
        /\ certs' = [certs EXCEPT !.ca = c]
        /\ rpc' = [rpc EXCEPT ![c] = "broken"] /\ panicked' = TRUE
        /\ UNCHANGED <<pc, boots>>
  /\ UNCHANGED <<server, done, served>>

\* Mutant: the end of the bootstrap is not signalled.
switch_connection_silent(c) ==
  /\ Handles(c, "switch")
  /\ certs' = [certs EXCEPT !.cert = c]
  /\ Answer(c)
  /\ UNCHANGED <<server, done, served, asked, panicked>>

\* Mutant: the certificate is not stored.
switch_connection_forgetting(c) ==
  /\ Handles(c, "switch")
  /\ done' = TRUE
  /\ Answer(c)
  /\ UNCHANGED <<server, certs, served, asked, panicked>>

\* The certificate the controller sends is never the empty string, so the
\* handler's early return is not taken.
switch_connection(c) ==
  /\ Handles(c, "switch")
  /\ certs' = [certs EXCEPT !.cert = c]
  /\ done' = TRUE
  /\ Answer(c)
  /\ UNCHANGED <<server, served, asked, panicked>>

\* done_rx fires: select! drops the plain server and its listener.
EndBootstrap ==
  /\ server = "plain" /\ done
  /\ server' = "gap"
  /\ UNCHANGED <<callers, certs, done, served, asked, panicked, boots>>

\* After the sleep.  An empty certificate is refused, and by rustls a key that
\* is not the certificate's; an error ends the process.
start_mtls_server ==
  /\ server = "gap"
  /\ \/ certs.cert # None /\ certs.key = certs.cert
        /\ server' = "mtls" /\ served' = certs
     \/ /\ certs.cert = None \/ certs.key # certs.cert \/ "bind" \in LinkFaults
        /\ server' = "exited" /\ UNCHANGED served
  /\ UNCHANGED <<callers, certs, done, asked, panicked, boots>>

\* Mutant: client_auth_optional(true).
hello_svc_optional(c) ==
  /\ pc[c] = "hello" /\ rpc[c] = "sent"
  /\ server = "mtls"
  /\ rpc' = [rpc EXCEPT ![c] = "answered"]
  /\ UNCHANGED <<pc, agent, boots>>

\* The server verifies the client's certificate before anything is served.
hello_svc(c) ==
  /\ pc[c] = "hello" /\ rpc[c] = "sent"
  /\ server = "mtls"
  /\ rpc' = [rpc EXCEPT ![c] = IF served.ca = c THEN "answered" ELSE "broken"]
  /\ UNCHANGED <<pc, agent, boots>>

AgentStep == \/ EndBootstrap \/ start_mtls_server
             \/ \E c \in Callers : \/ who_am_i(c) \/ request_csr(c)
                                   \/ switch_connection(c) \/ hello_svc(c)

-----------------------------------------------------------------------------
(***************************************************************************)
(* Faults (external).  A process that ends closes its connections; a guest *)
(* that goes down for good just does not answer any more.                  *)
(***************************************************************************)
InFlight(c) == rpc[c] \in {"sent", "answered"}

ConnectionLost(c) ==
  /\ "lost" \in LinkFaults
  /\ InFlight(c)
  /\ rpc' = [rpc EXCEPT ![c] = "broken"]
  /\ UNCHANGED <<pc, agent, boots>>

\* The listener and the connections of an exited process are closed.
ConnectionClosed(c) ==
  /\ server = "exited"
  /\ InFlight(c)
  /\ rpc' = [rpc EXCEPT ![c] = "broken"]
  /\ UNCHANGED <<pc, agent, boots>>

\* A scheduled task starts the agent when the guest boots, with empty state.
GuestReboots ==
  /\ "reboot" \in LinkFaults /\ boots < MaxBoots
  /\ server # "off"
  /\ boots' = boots + 1
  /\ server' = "plain" /\ certs' = NoCerts /\ done' = FALSE /\ served' = NoCerts
  /\ asked' = {} /\ panicked' = FALSE
  /\ rpc' = [c \in Callers |-> IF InFlight(c) THEN "broken" ELSE rpc[c]]
  /\ pc' = [c \in Callers |-> IF pc[c] = "connected" THEN "failed" ELSE pc[c]]

GuestGone ==
  /\ "off" \in LinkFaults
  /\ server' = "off"
  /\ UNCHANGED <<callers, certs, done, served, asked, panicked, boots>>

Faulty == GuestReboots \/ GuestGone \/ \E c \in Callers : ConnectionLost(c)

BNext ==
  \/ AgentStep
  \/ \E c \in Callers : CallerStep(c) \/ ConnectionClosed(c)
  \/ Faulty

BSpec == BInit /\ [][BNext]_bvars

(***************************************************************************)
(* The agent's runtime and the tasks that are ready run, and Windows       *)
(* closes the connections of an ended process.  Faults need not happen.    *)
(***************************************************************************)
BFairSpec ==
  /\ BSpec
  /\ WF_bvars(AgentStep)
  /\ \A c \in Callers : WF_bvars(CallerStep(c)) /\ WF_bvars(ConnectionClosed(c))

-----------------------------------------------------------------------------
(***************************************************************************)
(* What the exchange promises.                                             *)
(***************************************************************************)
Owner == Callers \cup {None}

\* The state of the exchange; the plain server's listener goes only after some
\* switch_connection, and the mTLS server always has a certificate (AgentCerts
\* starts out with empty strings).
BTypeOK ==
  /\ pc \in [Callers -> {"dial", "who", "csr", "switch", "redial", "hello", "connected", "failed"}]
  /\ rpc \in [Callers -> {"none", "sent", "answered", "broken"}]
  /\ server \in {"plain", "gap", "mtls", "exited", "off"}
  /\ certs \in [ca : Owner, key : Owner, cert : Owner]
  /\ served \in [ca : Owner, key : Owner, cert : Owner]
  /\ done \in BOOLEAN /\ panicked \in BOOLEAN
  /\ asked \subseteq Callers
  /\ boots \in 0..MaxBoots
  /\ server \in {"gap", "mtls"} => done
  /\ server = "mtls" => served.cert # None

\* A task that is connected talks to an agent that holds a key made for it, a
\* certificate it signed itself and no CA but its own, so two tasks that dial
\* one address can never both upload to, or take a result from, one agent.
OwnAgent ==
  \A c \in Callers : pc[c] = "connected" => served = [ca |-> c, key |-> c, cert |-> c]

\* However the calls of several tasks interleave, an agent that serves mTLS
\* trusts the CA that signed its certificate; only a request_csr that panics
\* between storing the CA and the key can part the two.
ServedTogether ==
  server = "mtls" => served.key = served.cert /\ (served.ca = served.cert \/ panicked)

\* A task whose switch_connection was acknowledged finds its agent, unless
\* another task has asked this agent for a CSR as well, the guest has
\* rebooted or gone down, or the port could not be bound again.
SwitchSticks ==
  \A c \in Callers :
    pc[c] \in {"redial", "hello", "connected"} =>
      \/ certs = [ca |-> c, key |-> c, cert |-> c] /\ done /\ server # "exited"
      \/ asked \ {c} # {}
      \/ boots > 0 \/ server = "off" \/ (server = "exited" /\ "bind" \in LinkFaults)

\* start_mtls_server never gives the lock back: until the guest reboots, no
\* late bootstrap call changes the certificates the agent serves with.
CertsFrozen ==
  [][(server = "mtls" /\ server' = "mtls") => certs' = certs /\ certs' = served]_bvars

-----------------------------------------------------------------------------
(***************************************************************************)
(* The inductive invariant behind these properties.                        *)
(***************************************************************************)
Trio(c) == [ca |-> c, key |-> c, cert |-> c]

\* The last CSR handled gave both the CA and the key, unless it panicked; what
\* is served was taken from the state and does not change any more.
AgentTracks ==
  /\ certs.ca = certs.key \/ panicked
  /\ panicked => asked # {}
  /\ server \in {"plain", "gap"} => served = NoCerts
  /\ server = "mtls" => certs = served
  /\ served = NoCerts \/ (served.cert = served.key /\ (served.ca = served.cert \/ panicked))

\* Only some places of a caller have a call in flight, and the calls of
\* connect_mtls are in flight only with an agent that has its certificate.
CallsTrack ==
  \A c \in Callers :
    /\ pc[c] \in {"dial", "redial", "connected", "failed"} => rpc[c] = "none"
    /\ pc[c] = "hello" /\ rpc[c] \in {"sent", "answered"} => served.cert = c /\ served # NoCerts
    /\ pc[c] = "hello" /\ rpc[c] = "answered" => served = Trio(c)
    /\ pc[c] = "connected" => served = Trio(c)

GotCsr(c)    == pc[c] \in {"switch", "redial", "hello", "connected"} \/ (pc[c] = "csr" /\ rpc[c] = "answered")
GotSwitch(c) == pc[c] \in {"redial", "hello", "connected"} \/ (pc[c] = "switch" /\ rpc[c] = "answered")

\* In the first boot: a caller that has its CSR has asked for it, and while
\* nobody else has asked, the agent holds what this caller gave it.
ExchangeTracks ==
  boots = 0 =>
    \A c \in Callers :
      /\ GotCsr(c) => c \in asked
      /\ GotCsr(c) /\ asked \subseteq {c} => certs.ca = c /\ certs.key = c
      /\ GotSwitch(c) /\ asked \subseteq {c} =>
           /\ certs.cert = c /\ done
           /\ server = "exited" => "bind" \in LinkFaults

\* The invariant that start_mtls_server, the three bootstrap handlers and the
\* callers preserve together (main.rs, bootstrap.rs, job.rs).
BInv == BTypeOK /\ AgentTracks /\ CallsTrack /\ ExchangeTracks

-----------------------------------------------------------------------------
\* The ways in which a task waits for ever: the agent is gone, or serves with
\* another task's certificates, or holds the lock the call in flight waits
\* for, or has forgotten the switch in a reboot.
Stranded(c) ==
  \/ server \in {"off", "exited"}
  \/ server = "mtls" /\ served.cert # c /\ (pc[c] = "redial" \/ rpc[c] = "sent")
  \/ server = "plain" /\ ~done /\ boots > 0 /\ pc[c] = "redial"

\* Every task that dials is connected in the end, or fails, or is stranded in
\* one of the ways named; the exchange itself does not hang.
ExchangeEnds ==
  \A c \in Callers : pc[c] = "dial" ~> (pc[c] \in {"connected", "failed"} \/ Stranded(c))
=============================================================================
