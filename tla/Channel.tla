------------------------------- MODULE Channel -------------------------------
(***************************************************************************)
(* Reactor/Channel.h and .cc with the registration half of EpollPoller.cc: *)
(* a channel and what the poller and epoll hold of it, as one record.      *)
(*   events    events_, a set of epoll flags                               *)
(*   status    kNew, kAdded or kDeleted                                    *)
(*   mapped    channels_ of the poller has the channel                     *)
(*   interest  the flags registered in epoll, or Absent                    *)
(* EPOLLPRI, which goes with EPOLLIN here, is left out, and so are         *)
(* disableReading() and disableWriting(), which nothing calls.             *)
(***************************************************************************)
EXTENDS FiniteSets

kReadEvent  == {"in", "oneshot"}
kWriteEvent == {"out", "oneshot"}
kCloseEvent == {"hup", "rdhup"}

Absent   == {"absent"}
Disarmed == {"oneshot"}

NewChannel == [events |-> {}, status |-> "kNew", mapped |-> FALSE, interest |-> Absent]

\* EpollPoller::update(): an ADD of what is registered and a MOD of what is not
\* fail, and nobody learns of it
Add(ch) == IF ch.interest = Absent THEN [ch EXCEPT !.interest = ch.events] ELSE ch
Mod(ch) == IF ch.interest = Absent THEN ch ELSE [ch EXCEPT !.interest = ch.events]
Del(ch) == [ch EXCEPT !.interest = Absent]

UpdateChannel(ch) ==
    IF ch.status \in {"kNew", "kDeleted"}
    THEN Add([ch EXCEPT !.mapped = @ \/ ch.status = "kNew", !.status = "kAdded"])
    ELSE IF ch.events = {} THEN [Del(ch) EXCEPT !.status = "kDeleted"] ELSE Mod(ch)

\* mutant: a removed channel stays in epoll
BugRemoveChannel(ch) == [ch EXCEPT !.mapped = FALSE, !.status = "kNew"]

RemoveChannel(ch) ==
    [(IF ch.status = "kAdded" THEN Del(ch) ELSE ch)
        EXCEPT !.mapped = FALSE, !.status = "kNew"]

EnableReading(ch) == UpdateChannel([ch EXCEPT !.events = @ \cup kReadEvent \cup kCloseEvent])
EnableWriting(ch) == UpdateChannel([ch EXCEPT !.events = @ \cup kWriteEvent \cup kCloseEvent])
DisableAll(ch)    == UpdateChannel([ch EXCEPT !.events = {}])

-----------------------------------------------------------------------------
(* epoll_wait().                                                           *)

Registered(ch) == ch.interest # Absent

Armed(ch) == ch.interest \notin {Absent, Disarmed}

\* errors and hang-ups are reported unasked
Reported(ch, ready) ==
    IF Armed(ch) THEN ready \cap (ch.interest \cup {"hup", "err"}) ELSE {}

\* what epoll does to a one-shot registration it has reported
Disarm(ch) == IF "oneshot" \in ch.interest THEN [ch EXCEPT !.interest = Disarmed] ELSE ch

\* mutant: writing comes before reading
BugCallback(revents) ==
    IF "hup" \in revents /\ "in" \notin revents THEN "close"
    ELSE IF "err" \in revents THEN "error"
    ELSE IF "out" \in revents THEN "write"
    ELSE IF revents \cap {"in", "rdhup"} # {} THEN "read"
    ELSE "none"

\* handleEventWithGuard(): the callback that is called, the first that applies
Callback(revents) ==
    IF "hup" \in revents /\ "in" \notin revents THEN "close"
    ELSE IF "err" \in revents THEN "error"
    ELSE IF revents \cap {"in", "rdhup"} # {} THEN "read"
    ELSE IF "out" \in revents THEN "write"
    ELSE "none"

Flags == {"in", "out", "hup", "rdhup", "err"}

ChannelType ==
    [events : SUBSET (Flags \cup {"oneshot"}), status : {"kNew", "kAdded", "kDeleted"},
     mapped : BOOLEAN, interest : (SUBSET (Flags \cup {"oneshot"})) \cup {Absent}]

\* The three records of a channel agree: epoll has it exactly when it says it is
\* added, with the events it asks for unless a report has disarmed it, and the
\* map of the poller has it exactly unless it says it is new.
Agrees(ch) ==
    /\ Registered(ch) <=> ch.status = "kAdded"
    /\ ch.mapped <=> ch.status # "kNew"
    /\ ch.interest \in {Absent, Disarmed, ch.events}
=============================================================================
