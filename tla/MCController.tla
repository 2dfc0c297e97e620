---------------------------- MODULE MCController ----------------------------
(***************************************************************************)
(* Instances of Controller for TLC.                                        *)
(***************************************************************************)
EXTENDS Controller, TLC

\* Jobs, pages and results are interchangeable.
Symmetry == Permutations(Jobs) \cup Permutations(Clients) \cup Permutations(Results)

\* Every fault of the host and of libvirt; all faults; all but lost streams.
HostFaults == FileFaults \cup LibvirtFaults
AllFaults  == HostFaults \cup RemoteFaults
NoDrop     == HostFaults \cup {"guest"}
NoFaults   == {}
=============================================================================
