------------------------------ MODULE VmManager ------------------------------
(***************************************************************************)
(* VmManager and JobDomain of malbox-controller (vm.rs): what one job's    *)
(* virtual machine leaves on the host.  create_job_domain and teardown are *)
(* synchronous sequences of host and libvirt calls; vm[j] is the call the  *)
(* sequence for job j is about to make, or what it returned.               *)
(*                                                                         *)
(* The domain, its overlay and its nvram are named after a fresh uuid, so  *)
(* they are identified here with the job they are made for.                *)
(***************************************************************************)
EXTENDS ControllerParameters

VARIABLES
  vm,         \* progress of create_job_domain and teardown
  overlay,    \* jobs whose qcow2 overlay is on disk
  nvram,      \* jobs whose nvram copy is on disk
  defined,    \* jobs whose domain libvirt has a persistent definition of
  running,    \* jobs whose domain is running
  leased,     \* jobs whose guest got a DHCP lease
  warned      \* jobs about which a warning was logged

vmVars == <<vm, overlay, nvram, defined, running, leased, warned>>

Creating == {"overlay", "nvram", "define", "start", "networks", "ip"}
Tearing  == {"destroy", "undefine", "rm_overlay", "rm_nvram"}
VmStates == {"idle", "ok", "err", "panic", "gone"} \cup Creating \cup Tearing

VmTypeOK ==
  /\ vm \in [Jobs -> VmStates]
  /\ overlay \subseteq Jobs /\ nvram \subseteq Jobs
  /\ defined \subseteq Jobs /\ running \subseteq Jobs
  /\ leased \subseteq Jobs  /\ warned \subseteq Jobs

VmInit ==
  /\ vm = [j \in Jobs |-> "idle"]
  /\ overlay = {} /\ nvram = {} /\ defined = {} /\ running = {}
  /\ leased = {} /\ warned = {}

Goto(j, s) == vm' = [vm EXCEPT ![j] = s]

\* The outcomes of std::fs::remove_file for job j on a set of files.
Removals(files, j) ==
  {files \ {j}} \cup (IF "remove" \in Faults THEN {files} ELSE {})

-----------------------------------------------------------------------------
(***************************************************************************)
(* create_job_domain.                                                      *)
(***************************************************************************)
CallCreate(j) ==
  /\ vm[j] = "idle"
  /\ Goto(j, "overlay")
  /\ UNCHANGED <<overlay, nvram, defined, running, leased, warned>>

\* qemu-img may leave a file behind when it fails; nothing removes it.
CreateOverlay(j) ==
  /\ vm[j] = "overlay"
  /\ \/ overlay' = overlay \cup {j} /\ Goto(j, "nvram")
     \/ /\ "overlay" \in Faults
        /\ overlay' \in {overlay, overlay \cup {j}}
        /\ Goto(j, "err")
  /\ UNCHANGED <<nvram, defined, running, leased, warned>>

\* A copy that fails halfway leaves a file; only the overlay is removed.
CreateNvram(j) ==
  /\ vm[j] = "nvram"
  /\ \/ /\ nvram' = nvram \cup {j}
        /\ Goto(j, "define")
        /\ UNCHANGED <<overlay, warned>>
     \/ /\ "nvram" \in Faults
        /\ nvram' \in {nvram, nvram \cup {j}}
        /\ overlay' \in Removals(overlay, j)
        /\ warned' = IF j \in overlay' THEN warned \cup {j} ELSE warned
        /\ Goto(j, "err")
  /\ UNCHANGED <<defined, running, leased>>

\* The exit every later failure takes: both files are unlinked and the
\* results of unlinking are dropped.  The domain is not touched.
Abandon(j, nvramNow) ==
  /\ overlay' \in Removals(overlay, j)
  /\ nvram' \in Removals(nvramNow, j)
  /\ Goto(j, "err")

DefineDomain(j) ==
  /\ vm[j] = "define"
  /\ \/ /\ defined' = defined \cup {j}
        /\ Goto(j, "start")
        /\ UNCHANGED <<overlay, nvram>>
     \/ /\ "define" \in Faults
        /\ Abandon(j, nvram)
        /\ UNCHANGED defined
  /\ UNCHANGED <<running, leased, warned>>

\* A domain that does not start is undefined together with its nvram; when
\* that fails a plain undefine is tried, whose failure is returned.
StartDomain(j) ==
  /\ vm[j] = "start"
  /\ \/ /\ running' = running \cup {j}
        /\ Goto(j, "networks")
        /\ UNCHANGED <<overlay, nvram, defined>>
     \/ /\ "start" \in Faults
        /\ \/ defined' = defined \ {j} /\ Abandon(j, nvram \ {j})
           \/ /\ "undefine" \in Faults
              /\ defined' \in {defined \ {j}, defined}
              /\ Abandon(j, nvram)
        /\ UNCHANGED running
  /\ UNCHANGED <<leased, warned>>

\* list_all_networks, the search for "default", and the expect on get_name.
FindNetwork(j) ==
  /\ vm[j] = "networks"
  /\ \/ Goto(j, "ip") /\ UNCHANGED <<overlay, nvram>>
     \/ "networks" \in Faults /\ Abandon(j, nvram)
     \/ "netname" \in Faults /\ Goto(j, "panic") /\ UNCHANGED <<overlay, nvram>>
  /\ UNCHANGED <<defined, running, leased, warned>>

\* Mutant: the files are cleaned up and the machine is returned all the same.
WaitForIpReturning(j) ==
  /\ vm[j] = "ip"
  /\ Goto(j, "ok")
  /\ \/ j \in leased /\ UNCHANGED <<overlay, nvram>>
     \/ overlay' \in Removals(overlay, j) /\ nvram' \in Removals(nvram, j)
  /\ UNCHANGED <<defined, running, leased, warned>>

\* wait_for_ip_from_mac polls the leases until it finds one or 60 s are over;
\* a lease that arrives after the last poll is not seen.
WaitForIp(j) ==
  /\ vm[j] = "ip"
  /\ \/ j \in leased /\ Goto(j, "ok") /\ UNCHANGED <<overlay, nvram>>
     \/ Abandon(j, nvram)
  /\ UNCHANGED <<defined, running, leased, warned>>

CreateStep(j) ==
  \/ CreateOverlay(j) \/ CreateNvram(j) \/ DefineDomain(j)
  \/ StartDomain(j) \/ FindNetwork(j) \/ WaitForIp(j)

-----------------------------------------------------------------------------
(***************************************************************************)
(* JobDomain::teardown.  Every step is tried whatever the earlier ones     *)
(* did; a failure is only logged.                                          *)
(***************************************************************************)
CallTeardown(j) ==
  /\ vm[j] = "ok"
  /\ Goto(j, "destroy")
  /\ UNCHANGED <<overlay, nvram, defined, running, leased, warned>>

\* Mutant: destroy is retried until it succeeds.
DestroyRetrying(j) ==
  /\ vm[j] = "destroy"
  /\ \/ j \in running /\ running' = running \ {j} /\ Goto(j, "undefine") /\ UNCHANGED warned
     \/ /\ j \notin running \/ "destroy" \in Faults
        /\ warned' = warned \cup {j}
        /\ UNCHANGED <<running, vm>>
  /\ UNCHANGED <<overlay, nvram, defined, leased>>

Destroy(j) ==
  /\ vm[j] = "destroy"
  /\ \/ j \in running /\ running' = running \ {j} /\ UNCHANGED warned
     \/ /\ j \notin running \/ "destroy" \in Faults
        /\ warned' = warned \cup {j}
        /\ UNCHANGED running
  /\ Goto(j, "undefine")
  /\ UNCHANGED <<overlay, nvram, defined, leased>>

\* VIR_DOMAIN_UNDEFINE_NVRAM makes libvirt delete the nvram file as well.
Undefine(j) ==
  /\ vm[j] = "undefine"
  /\ \/ /\ defined' = defined \ {j}
        /\ nvram' = nvram \ {j}
        /\ UNCHANGED warned
     \/ /\ "undefine" \in Faults
        /\ warned' = warned \cup {j}
        /\ UNCHANGED <<defined, nvram>>
  /\ Goto(j, "rm_overlay")
  /\ UNCHANGED <<overlay, running, leased>>

RemoveOverlay(j) ==
  /\ vm[j] = "rm_overlay"
  /\ overlay' \in Removals(overlay, j)
  /\ warned' = IF j \in overlay' THEN warned \cup {j} ELSE warned
  /\ Goto(j, "rm_nvram")
  /\ UNCHANGED <<nvram, defined, running, leased>>

RemoveNvram(j) ==
  /\ vm[j] = "rm_nvram"
  /\ nvram' \in Removals(nvram, j)
  /\ warned' = IF j \in nvram' THEN warned \cup {j} ELSE warned
  /\ Goto(j, "gone")
  /\ UNCHANGED <<overlay, defined, running, leased>>

TeardownStep(j) ==
  Destroy(j) \/ Undefine(j) \/ RemoveOverlay(j) \/ RemoveNvram(j)

-----------------------------------------------------------------------------
(***************************************************************************)
(* The guest and the DHCP server of the "default" network (external).      *)
(***************************************************************************)
GetLease(j) ==
  /\ j \in running \ leased
  /\ leased' = leased \cup {j}
  /\ UNCHANGED <<vm, overlay, nvram, defined, running, warned>>

GuestStops(j) ==
  /\ "guest" \in Faults
  /\ j \in running
  /\ running' = running \ {j}
  /\ UNCHANGED <<vm, overlay, nvram, defined, leased, warned>>

-----------------------------------------------------------------------------
\* Anything of job j's machine that is still on the host.
Remains(j) == j \in overlay \cup nvram \cup defined \cup running
=============================================================================
