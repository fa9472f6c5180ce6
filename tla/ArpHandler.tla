------------------------------ MODULE ArpHandler ------------------------------
(***************************************************************************)
(* CARPHandler (lib/net/arphandler.cpp): the table of the link addresses   *)
(* of hosts.  An entry that waits for a reply has a kernel timer.  Resolve *)
(* is called on behalf of any user (CLinkLayer::Send), frames are handled  *)
(* by the net task, a timer's handler runs in the timer interrupt; each    *)
(* keeps m_SpinLock, with interrupts disabled, while it uses the table.    *)
(* Frames may be lost, doubled and late.  The ages of entries are left     *)
(* out: any valid entry may be the oldest, or too old.                     *)
(***************************************************************************)
EXTENDS Integers, FiniteSets

CONSTANTS
  Hosts,            \* IP addresses
  Macs,             \* link addresses
  NoAddress,        \* what an entry holds before its first use
  ARP_MAX_ENTRIES,
  Timers            \* handles of kernel timers

ASSUME ArpAssumption ==
  /\ ARP_MAX_ENTRIES \in Nat \ {0}
  /\ NoAddress \notin Hosts \cup Macs \cup Timers

ArpSlots == 1 .. ARP_MAX_ENTRIES

VARIABLES
  m_Entry,     \* the table
  kernelTimer, \* the running timers: the table index that is each one's parameter
  had,         \* history: the link addresses that a host has had
  noEntry      \* whether the assertion in Resolve has failed

arpVars == <<m_Entry, kernelTimer, had, noEntry>>

Entry == [State : {"FreeSlot", "RequestSent", "Valid"},
          IPAddress : Hosts \cup {NoAddress},
          MACAddress : Macs \cup {NoAddress},
          hTimer : Timers \cup {NoAddress}]

ArpTypeOK ==
  /\ m_Entry \in [ArpSlots -> Entry]
  /\ kernelTimer \in [Timers -> ArpSlots \cup {0}]
  /\ had \in [Hosts -> SUBSET Macs]
  /\ noEntry \in BOOLEAN

ArpInit ==
  /\ m_Entry = [i \in ArpSlots |-> [State |-> "FreeSlot", IPAddress |-> NoAddress,
                                 MACAddress |-> NoAddress, hTimer |-> NoAddress]]
  /\ kernelTimer = [t \in Timers |-> 0]
  /\ had = [h \in Hosts |-> {}]
  /\ noEntry = FALSE

In(state) == {i \in ArpSlots : m_Entry[i].State = state}
Known(h) == {i \in ArpSlots : m_Entry[i].State # "FreeSlot" /\ m_Entry[i].IPAddress = h}

\* The first free slot, else an entry to replace: of the valid ones the one that has not been
\* used for longest.
SlotToUse(i) ==
  IF In("FreeSlot") # {} THEN i \in In("FreeSlot") /\ \A j \in In("FreeSlot") : i <= j
                         ELSE i \in In("Valid")

\* A host that has an entry is resolved or has been asked: nothing changes but the age.
\* Otherwise it is asked, and the timer started.
Resolve(h) ==
  /\ ~noEntry /\ Known(h) = {}
  /\ \/ \E i \in ArpSlots : \E t \in Timers :
          /\ SlotToUse(i) /\ kernelTimer[t] = 0
          /\ m_Entry' = [m_Entry EXCEPT ![i].State = "RequestSent", ![i].IPAddress = h,
                                        ![i].hTimer = t]
          /\ kernelTimer' = [kernelTimer EXCEPT ![t] = i]
          /\ UNCHANGED <<had, noEntry>>
     \/ /\ In("RequestSent") = ArpSlots
        /\ noEntry' = TRUE
        /\ UNCHANGED <<m_Entry, kernelTimer, had>>

\* Mutant: the timer goes on.
ReplyReceived_NoCancel(h, mac) ==
  \E i \in In("RequestSent") :
    /\ m_Entry[i].IPAddress = h
    /\ m_Entry' = [m_Entry EXCEPT ![i].State = "Valid", ![i].MACAddress = mac]
    /\ UNCHANGED <<kernelTimer, had, noEntry>>

ReplyReceived(h, mac) ==
  \E i \in In("RequestSent") :
    /\ m_Entry[i].IPAddress = h
    /\ kernelTimer' = [kernelTimer EXCEPT ![m_Entry[i].hTimer] = 0]
    /\ m_Entry' = [m_Entry EXCEPT ![i].State = "Valid", ![i].MACAddress = mac]
    /\ UNCHANGED <<had, noEntry>>

\* Mutant: only valid entries are looked at.
RequestReceived_Valid(h, mac) ==
  /\ \A i \in ArpSlots : m_Entry[i].State # "Valid" \/ m_Entry[i].IPAddress # h
  /\ \E i \in In("FreeSlot") :
       /\ \A j \in In("FreeSlot") : i <= j
       /\ m_Entry' = [m_Entry EXCEPT ![i].State = "Valid", ![i].IPAddress = h,
                                     ![i].MACAddress = mac]
  /\ UNCHANGED <<kernelTimer, had, noEntry>>

\* The host that asks for our address is entered if it has no entry and a slot is free.
RequestReceived(h, mac) ==
  /\ Known(h) = {}
  /\ \E i \in In("FreeSlot") :
       /\ \A j \in In("FreeSlot") : i <= j
       /\ m_Entry' = [m_Entry EXCEPT ![i].State = "Valid", ![i].IPAddress = h,
                                     ![i].MACAddress = mac]
  /\ UNCHANGED <<kernelTimer, had, noEntry>>

\* A frame that the host has sent at any time before.
Receive ==
  /\ ~noEntry
  /\ \E h \in Hosts : \E mac \in had[h] : ReplyReceived(h, mac) \/ RequestReceived(h, mac)

\* Process frees valid entries that have not been used for ARP_LIFETIME_HZ.
Age(i) ==
  /\ ~noEntry /\ m_Entry[i].State = "Valid"
  /\ m_Entry' = [m_Entry EXCEPT ![i].State = "FreeSlot"]
  /\ UNCHANGED <<kernelTimer, had, noEntry>>

\* The timer interrupt takes the timer from the list and calls the handler.
TimerHandler(t) ==
  /\ ~noEntry /\ kernelTimer[t] # 0
  /\ LET i == kernelTimer[t]
     IN  m_Entry' = [m_Entry EXCEPT ![i].State =
                      IF m_Entry[i].State = "RequestSent" THEN "FreeSlot" ELSE @]
  /\ kernelTimer' = [kernelTimer EXCEPT ![t] = 0]
  /\ UNCHANGED <<had, noEntry>>

\* A host appears on the net, or gets another adapter.  No two hosts share an adapter.
Appears(h, mac) ==
  /\ \A other \in Hosts : mac \notin had[other]
  /\ had' = [had EXCEPT ![h] = had[h] \cup {mac}]
  /\ UNCHANGED <<m_Entry, kernelTimer, noEntry>>

ArpNext ==
  \/ \E h \in Hosts : Resolve(h) \/ \E mac \in Macs : Appears(h, mac)
  \/ Receive
  \/ \E i \in ArpSlots : Age(i)
  \/ \E t \in Timers : TimerHandler(t)

ArpSpec == ArpInit /\ [][ArpNext]_arpVars

-----------------------------------------------------------------------------
(* Properties *)

\* Exactly the entries that wait for a reply have a running timer, each one its own, and the
\* handle in the entry is that timer's: a reply never cancels the timer of another request, and
\* no handler frees the entry of a later request (ReplyReceived, TimerHandler).
ArpTimersExact ==
  /\ \A i \in In("RequestSent") :
       m_Entry[i].hTimer \in Timers /\ kernelTimer[m_Entry[i].hTimer] = i
  /\ \A t \in Timers : kernelTimer[t] # 0 =>
       /\ m_Entry[kernelTimer[t]].State = "RequestSent"
       /\ m_Entry[kernelTimer[t]].hTimer = t

\* A host has one entry at most, and a valid entry an address that this host has had, although
\* slots are reused while frames of former requests are under way.
ArpTableTrue ==
  /\ \A i, j \in ArpSlots : (/\ i # j
                             /\ m_Entry[i].State # "FreeSlot" /\ m_Entry[j].State # "FreeSlot")
                            => m_Entry[i].IPAddress # m_Entry[j].IPAddress
  /\ \A i \in In("Valid") : m_Entry[i].MACAddress \in had[m_Entry[i].IPAddress]
=============================================================================
