------------------------ MODULE ControllerParameters ------------------------
\* The constants that the tracker (JobTracker, EventStream) and the machines
\* (VmManager) have in common.  Faults selects what can go wrong in an instance;
\* a theorem that does not mention it holds for every choice.
CONSTANTS
  Jobs,       \* ids from uuid::Uuid::new_v4()
  Faults      \* the failures an instance allows

\* qemu-img with a master image (overlay), fs::copy of the master nvram
\* (nvram) and fs::remove_file (remove).
FileFaults == {"overlay", "nvram", "remove"}

\* The libvirt calls of create_job_domain and teardown.  "networks" stands for
\* a listing that fails or has no "default" in it, "netname" for get_name, and
\* "destroy" for a domain that is running and cannot be destroyed.
LibvirtFaults == {"define", "start", "networks", "netname", "destroy", "undefine"}

\* The guest powers itself off; the browser loses its connection.
RemoteFaults == {"guest", "drop"}

ASSUME FaultsAssumption ==
  Faults \subseteq FileFaults \cup LibvirtFaults \cup RemoteFaults
=============================================================================
