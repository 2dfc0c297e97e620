-------------------------- MODULE BootstrapProofs --------------------------
(***************************************************************************)
(* Theorems about the certificate exchange, for any set of tasks that dial *)
(* one agent, any choice of faults and any number of reboots.              *)
(***************************************************************************)
EXTENDS Bootstrap, TLAPS

\* Every step of the agent, of a caller or of a fault, by name.
LEMMA StepCases ==
  ASSUME BNext
  PROVE  \/ EndBootstrap \/ start_mtls_server \/ GuestReboots \/ GuestGone
         \/ \E c \in Callers :
              \/ who_am_i(c) \/ request_csr(c) \/ switch_connection(c) \/ hello_svc(c)
              \/ Dial(c) \/ generate_job_certs(c) \/ sign_agent_csr(c) \/ Switched(c)
              \/ Redial(c) \/ Greeted(c) \/ CallBroken(c)
              \/ ConnectionLost(c) \/ ConnectionClosed(c)
  BY DEF BNext, AgentStep, CallerStep, Faulty

\* The empty AgentCerts are AgentCerts.
LEMMA NoCertsType == NoCerts \in [ca : Owner, key : Owner, cert : Owner]
  BY DEF NoCerts, Owner

\* The initial state of agent and callers satisfies the invariant.
LEMMA InitOK == BInit => BInv
<1> SUFFICES ASSUME BInit PROVE BInv
  OBVIOUS
<1>1. BTypeOK
  <2>1. boots \in 0..MaxBoots
    BY BootstrapAssumption DEF BInit
  <2>2. /\ pc \in [Callers -> {"dial", "who", "csr", "switch", "redial", "hello",
                                "connected", "failed"}]
        /\ rpc \in [Callers -> {"none", "sent", "answered", "broken"}]
    BY DEF BInit
  <2> QED  BY <2>1, <2>2, NoCertsType DEF BInit, BTypeOK
<1>2. AgentTracks
  BY DEF BInit, AgentTracks, NoCerts
<1>3. CallsTrack
  BY DEF BInit, CallsTrack
<1>4. ExchangeTracks
  BY DEF BInit, ExchangeTracks, GotCsr, GotSwitch
<1> QED  BY <1>1, <1>2, <1>3, <1>4 DEF BInv

\* The steps of the agent's main function, which touch no call.
LEMMA MainPreserves ==
  ASSUME BInv, EndBootstrap \/ start_mtls_server
  PROVE  BInv'
<1>1. BTypeOK'
  BY BootstrapAssumption DEF BInv, BTypeOK, EndBootstrap, start_mtls_server, callers, Owner
<1>2. AgentTracks'
  BY DEF BInv, BTypeOK, AgentTracks, EndBootstrap, start_mtls_server, callers, NoCerts, Owner
<1>3. CallsTrack'
  <2>1. CASE served' = served
    BY <2>1 DEF BInv, BTypeOK, CallsTrack, EndBootstrap, start_mtls_server, callers
  <2>2. CASE start_mtls_server /\ served = NoCerts
    <3>1. \A c \in Callers : served # Trio(c)
      BY <2>2, BootstrapAssumption DEF NoCerts, Trio
    <3> QED
      BY <2>2, <3>1 DEF BInv, BTypeOK, CallsTrack, start_mtls_server, callers
  <2> QED  BY <2>1, <2>2 DEF BInv, AgentTracks, EndBootstrap, start_mtls_server
<1>4. ExchangeTracks'
  BY BootstrapAssumption DEF BInv, BTypeOK, ExchangeTracks, EndBootstrap, start_mtls_server,
     callers, GotCsr, GotSwitch, Owner
<1> QED  BY <1>1, <1>2, <1>3, <1>4 DEF BInv

\* The handlers of the plain service.  They run only while start_mtls_server
\* does not hold the lock.
LEMMA HandlersPreserve ==
  ASSUME BInv, NEW c \in Callers,
         who_am_i(c) \/ request_csr(c) \/ switch_connection(c)
  PROVE  BInv'
<1> USE DEF Handles, Locked, Answer, agent
<1>0. pc' = pc /\ boots' = boots /\ server' = server /\ served' = served
      /\ server \in {"plain", "gap"}
      /\ pc[c] \in {"who", "csr", "switch"}
      /\ rpc' = [rpc EXCEPT ![c] = rpc'[c]] /\ rpc'[c] \in {"answered", "broken"}
  BY DEF BInv, BTypeOK, who_am_i, request_csr, switch_connection
<1>1. BTypeOK'
  BY <1>0 DEF BInv, BTypeOK, who_am_i, request_csr, switch_connection, Owner
<1>2. AgentTracks'
  <2> USE DEF BInv, BTypeOK, AgentTracks, Owner
  <2>1. CASE who_am_i(c)
    BY <2>1 DEF who_am_i
  <2>2. CASE request_csr(c)
    <3>1. asked' # {}
      BY <2>2 DEF request_csr
    <3>2. certs'.ca = certs'.key \/ panicked'
      BY <2>2 DEF request_csr
    <3>3. served' = NoCerts /\ server' # "mtls"
      BY <2>2, <1>0 DEF request_csr
    <3> QED  BY <3>1, <3>2, <3>3
  <2>3. CASE switch_connection(c)
    BY <2>3, <1>0 DEF switch_connection
  <2> QED  BY <2>1, <2>2, <2>3
<1>3. CallsTrack'
  BY <1>0 DEF BInv, BTypeOK, CallsTrack
<1>4. ExchangeTracks'
  <2> USE DEF BInv, BTypeOK, ExchangeTracks, GotCsr, GotSwitch, Owner
  <2>1. CASE who_am_i(c)
    BY <2>1, <1>0 DEF who_am_i
  <2>2. CASE request_csr(c)
    <3>1. asked' = asked \cup {c}
      BY <2>2 DEF request_csr
    <3>2. \A d \in Callers : d # c => /\ ~(asked' \subseteq {d})
                                      /\ GotCsr(d)' => GotCsr(d)
      BY <3>1, <1>0
    <3>3. ~GotSwitch(c)'
      BY <2>2, <1>0 DEF request_csr
    <3>4. GotCsr(c)' => certs'.ca = c /\ certs'.key = c
      BY <2>2, <1>0 DEF request_csr
    <3> HIDE DEF GotCsr, GotSwitch
    <3>5. boots' = 0 => \A d \in Callers : GotCsr(d)' => d \in asked'
      BY <3>1, <3>2, <1>0
    <3> QED  BY <3>2, <3>3, <3>4, <3>5
  <2>3. CASE switch_connection(c)
    BY <2>3, <1>0 DEF switch_connection
  <2> QED  BY <2>1, <2>2, <2>3
<1> QED  BY <1>1, <1>2, <1>3, <1>4 DEF BInv

\* A caller's own steps, and calls that break, leave the agent alone.
LEMMA CallersPreserve ==
  ASSUME BInv, NEW c \in Callers,
         \/ Dial(c) \/ generate_job_certs(c) \/ sign_agent_csr(c) \/ Switched(c)
         \/ Redial(c) \/ Greeted(c) \/ CallBroken(c) \/ hello_svc(c)
         \/ ConnectionLost(c) \/ ConnectionClosed(c)
  PROVE  BInv'
<1> USE DEF Goto, InFlight
<1>0. /\ UNCHANGED <<agent, boots>>
      /\ pc' = [pc EXCEPT ![c] = pc'[c]] /\ rpc' = [rpc EXCEPT ![c] = rpc'[c]]
      /\ pc'[c] \in {"dial", "who", "csr", "switch", "redial", "hello", "connected", "failed"}
      /\ rpc'[c] \in {"none", "sent", "answered", "broken"}
  BY DEF BInv, BTypeOK, Dial, generate_job_certs, sign_agent_csr, Switched, Redial, Greeted,
     CallBroken, hello_svc, ConnectionLost, ConnectionClosed
<1>1. BTypeOK'
  BY <1>0 DEF BInv, BTypeOK, agent
<1>2. AgentTracks'
  BY <1>0 DEF BInv, AgentTracks, agent
<1>3. CallsTrack'
  <2>1. /\ pc'[c] \in {"dial", "redial", "connected", "failed"} => rpc'[c] = "none"
        /\ pc'[c] = "hello" /\ rpc'[c] \in {"sent", "answered"} =>
             served.cert = c /\ served # NoCerts
        /\ pc'[c] = "hello" /\ rpc'[c] = "answered" => served = Trio(c)
        /\ pc'[c] = "connected" => served = Trio(c)
    <3> USE <1>0 DEF BInv, BTypeOK, CallsTrack
    <3>1. CASE Redial(c)
      BY <3>1, BootstrapAssumption DEF Redial, NoCerts
    <3>2. CASE hello_svc(c)
      <4>1. served.ca = c /\ served.cert = c /\ served # NoCerts => served = Trio(c)
        BY DEF AgentTracks, Trio
      <4> QED  BY <3>2, <4>1 DEF hello_svc
    <3>3. CASE Dial(c) \/ generate_job_certs(c) \/ sign_agent_csr(c) \/ Switched(c)
      BY <3>3 DEF Dial, generate_job_certs, sign_agent_csr, Switched
    <3>4. CASE Greeted(c) \/ CallBroken(c) \/ ConnectionLost(c) \/ ConnectionClosed(c)
      BY <3>4 DEF Greeted, CallBroken, ConnectionLost, ConnectionClosed
    <3> QED  BY <3>1, <3>2, <3>3, <3>4
  <2> QED  BY <2>1, <1>0 DEF BInv, BTypeOK, CallsTrack, agent
<1>4. ExchangeTracks'
  <2>1. (GotCsr(c)' => GotCsr(c)) /\ (GotSwitch(c)' => GotSwitch(c))
    BY DEF BInv, BTypeOK, CallsTrack, GotCsr, GotSwitch, Dial, generate_job_certs,
       sign_agent_csr, Switched, Redial, Greeted, CallBroken, hello_svc, ConnectionLost,
       ConnectionClosed
  <2>2. \A d \in Callers : d # c => pc'[d] = pc[d] /\ rpc'[d] = rpc[d]
    BY <1>0 DEF BInv, BTypeOK
  <2> QED  BY <2>1, <2>2, <1>0 DEF BInv, ExchangeTracks, GotCsr, GotSwitch, agent
<1> QED  BY <1>1, <1>2, <1>3, <1>4 DEF BInv

\* A guest that reboots or goes down.
LEMMA GuestPreserves ==
  ASSUME BInv, GuestReboots \/ GuestGone
  PROVE  BInv'
<1>1. CASE GuestReboots
  <2>1. BTypeOK'
    <3>1. boots' \in 0..MaxBoots
      BY <1>1, BootstrapAssumption DEF GuestReboots, BInv, BTypeOK
    <3>2. /\ pc' \in [Callers -> {"dial", "who", "csr", "switch", "redial", "hello",
                                   "connected", "failed"}]
          /\ rpc' \in [Callers -> {"none", "sent", "answered", "broken"}]
      BY <1>1 DEF GuestReboots, BInv, BTypeOK, InFlight
    <3> QED  BY <3>1, <3>2, <1>1, NoCertsType DEF GuestReboots, BTypeOK
  <2>2. AgentTracks'
    BY <1>1 DEF GuestReboots, AgentTracks, NoCerts
  <2>3. CallsTrack'
    BY <1>1 DEF GuestReboots, BInv, BTypeOK, CallsTrack, InFlight
  <2>4. ExchangeTracks'
    BY <1>1 DEF GuestReboots, BInv, BTypeOK, ExchangeTracks
  <2> QED  BY <2>1, <2>2, <2>3, <2>4 DEF BInv
<1>2. CASE GuestGone
  <2> USE DEF GuestGone, callers
  <2>1. BTypeOK'
    BY <1>2 DEF BInv, BTypeOK
  <2>2. AgentTracks'
    BY <1>2 DEF BInv, AgentTracks
  <2>3. CallsTrack'
    BY <1>2 DEF BInv, CallsTrack
  <2>4. ExchangeTracks'
    BY <1>2 DEF BInv, ExchangeTracks, GotCsr, GotSwitch
  <2> QED  BY <2>1, <2>2, <2>3, <2>4 DEF BInv
<1> QED  BY <1>1, <1>2

\* The invariant of the exchange holds in every reachable state, for any number
\* of callers (bootstrap_mtls, connect_mtls and the agent's handlers).
THEOREM ExchangeInvariant == BSpec => []BInv
<1>1. BInit => BInv
  BY InitOK
<1>2. BInv /\ [BNext]_bvars => BInv'
  <2>1. ASSUME BInv, UNCHANGED bvars PROVE BInv'
    BY <2>1 DEF bvars, callers, agent, BInv, BTypeOK, AgentTracks, CallsTrack,
       ExchangeTracks, GotCsr, GotSwitch
  <2>2. ASSUME BInv, BNext PROVE BInv'
    BY <2>2, StepCases, MainPreserves, HandlersPreserve, CallersPreserve, GuestPreserves
  <2> QED  BY <2>1, <2>2
<1> QED  BY <1>1, <1>2, PTL DEF BSpec

\* A connected task talks to an agent that has its own certificates and CA:
\* no two tasks ever share an agent after connect_mtls.
THEOREM ConnectedToOwnAgent == BSpec => []OwnAgent
<1>1. BInv => OwnAgent
  BY DEF BInv, CallsTrack, OwnAgent, Trio
<1> QED  BY <1>1, ExchangeInvariant, PTL

\* What start_mtls_server serves with belongs together, however the bootstrap
\* calls of several tasks interleave.
THEOREM ServedCertsMatch == BSpec => []ServedTogether
<1>1. BInv => ServedTogether
  BY DEF BInv, BTypeOK, AgentTracks, ServedTogether, NoCerts
<1> QED  BY <1>1, ExchangeInvariant, PTL

\* An acknowledged switch_connection leads to an agent the task can reach, with
\* the exceptions the property names.
THEOREM AcknowledgedSwitchSticks == BSpec => []SwitchSticks
<1>1. BInv => SwitchSticks
  <2> SUFFICES ASSUME BInv, NEW c \in Callers, pc[c] \in {"redial", "hello", "connected"},
                      asked \subseteq {c}, boots = 0
               PROVE  certs = Trio(c) /\ done /\ (server = "exited" => "bind" \in LinkFaults)
    BY DEF SwitchSticks, Trio, BInv, BTypeOK
  <2>1. GotCsr(c) /\ GotSwitch(c)
    BY DEF GotCsr, GotSwitch
  <2> QED  BY <2>1 DEF BInv, BTypeOK, ExchangeTracks, Trio
<1> QED  BY <1>1, ExchangeInvariant, PTL

\* While start_mtls_server holds the lock, no bootstrap call changes the
\* certificates.
THEOREM ServedCertsAreFrozen == BSpec => CertsFrozen
<1>1. BInv /\ BInv' /\ [BNext]_bvars =>
        [(server = "mtls" /\ server' = "mtls") => certs' = certs /\ certs' = served]_bvars
  <2> SUFFICES ASSUME BInv, BInv', BNext, server = "mtls", server' = "mtls"
               PROVE  certs' = certs /\ certs' = served
    OBVIOUS
  <2>1. certs' = certs
    BY StepCases DEF EndBootstrap, start_mtls_server, GuestReboots, GuestGone, who_am_i,
       request_csr, switch_connection, Handles, Locked, hello_svc, Dial, generate_job_certs,
       sign_agent_csr, Switched, Redial, Greeted, CallBroken, ConnectionLost,
       ConnectionClosed, agent
  <2> QED  BY <2>1 DEF BInv, AgentTracks
<1> QED  BY <1>1, ExchangeInvariant, PTL DEF BSpec, CertsFrozen
=============================================================================
