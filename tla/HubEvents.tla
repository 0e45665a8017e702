----------------------------- MODULE HubEvents -----------------------------
(***************************************************************************)
(* The hub: the tenants' credentials for a provider of events, and the     *)
(* searches that page through the provider's answer with one of the keys.  *)
(*                                                                         *)
(* Keys are the tenant's own and the server's.  The provider lists its     *)
(* events by date, and goes on changing them while a search pages through  *)
(* the list; it refuses to page deeper than Depth.                         *)
(***************************************************************************)
EXTENDS Naturals, Sequences, SequencesExt

CONSTANTS
  Tenants,
  ServerKey,     \* TICKETMASTER_API_KEY, or NoKey
  NoKey,         \* a blank key
  Searches,      \* search requests, each made once
  Depth,         \* 1000: no page begins at an event past it
  DefaultLimit,  \* 100: the page size unless one up to MaxLimit is asked for
  MaxLimit,      \* 200
  Limits,        \* the page sizes that requests ask for
  Events,        \* what the provider may list
  Lists,         \* the lists of events the provider may have, by date
  Unusable       \* events without a name or a date

VARIABLES
  credential,  \* [Tenants]: {} or the one row [active, blank]
  events,      \* the provider's list
  search       \* [Searches]: the state of the request

vars == <<credential, events, search>>

(* What the theorem assumes of the constants: pages have a size, the first *)
(* is not too deep, and requests ask for numbers.                          *)
HubAssumption ==
  /\ Lists \subseteq Seq(Events)
  /\ Depth \in Nat \ {0} /\ DefaultLimit \in Nat \ {0} /\ MaxLimit \in Nat
  /\ Limits \subseteq Nat

Idle == [step |-> "idle", tenant |-> NoKey, key |-> NoKey, limit |-> 0,
         page |-> 0, results |-> <<>>, still |-> TRUE, deep |-> FALSE]

Init ==
  /\ credential = [t \in Tenants |-> {}]
  /\ events \in Lists
  /\ search = [r \in Searches |-> Idle]

-----------------------------------------------------------------------------
(* PUT and DELETE .../credentials, by the tenant's owner or administrator. *)
PutCredential(t, active, blank) ==
  /\ credential' = [credential EXCEPT ![t] = {[active |-> active, blank |-> blank]}]
  /\ UNCHANGED <<events, search>>

DeleteCredential(t) ==
  /\ credential' = [credential EXCEPT ![t] = {}]
  /\ UNCHANGED <<events, search>>

(* A tenant's key is named by the tenant.  An active row with a blank key, *)
(* and an inactive one, both leave the search to the server's key.         *)
ProviderKeyBroken(t) ==  \* the row of any tenant
  IF \E u \in Tenants : \E c \in credential[u] : c.active /\ ~c.blank
    THEN CHOOSE u \in Tenants : \E c \in credential[u] : c.active /\ ~c.blank
    ELSE ServerKey

ProviderKey(t) ==
  IF \E c \in credential[t] : c.active /\ ~c.blank THEN t ELSE ServerKey

-----------------------------------------------------------------------------
PageSize(limit) == IF limit = 0 \/ limit > MaxLimit THEN DefaultLimit ELSE limit

(* The request names a city and a range of dates, or is refused here.      *)
Begin(r, t, limit) ==
  /\ search[r].step = "idle"
  /\ search' = [search EXCEPT ![r] =
       [Idle EXCEPT !.tenant = t, !.key = ProviderKey(t),
                    !.limit = PageSize(limit),
                    !.step = IF ProviderKey(t) = NoKey THEN "failed" ELSE "paging"]]
  /\ UNCHANGED <<credential, events>>

(* What is converted of a list: its usable events, in their order.         *)
Usable(e) == e \notin Unusable

UsableOf(s) ==
  LET kept[n \in Nat] ==
        IF n = 0 THEN <<>>
        ELSE IF Usable(s[n]) THEN Append(kept[n - 1], s[n]) ELSE kept[n - 1]
  IN  kept[Len(s)]

Page(size, n) ==
  SubSeq(events, n * size + 1,
         IF (n + 1) * size < Len(events) THEN (n + 1) * size ELSE Len(events))

TotalPages(size) == (Len(events) + size - 1) \div size

(* One page: an empty one and the last one end the loop, and so does the   *)
(* guard at its head.                                                      *)
FetchPageBroken(r) ==  \* the last page is not read
  LET s == search[r]
      page == Page(s.limit, s.page)
  IN  /\ s.step = "paging"
      /\ search' = [search EXCEPT
           ![r].results = @ \o UsableOf(page),
           ![r].page = @ + 1,
           ![r].step = IF \/ page = <<>>
                          \/ s.page + 2 >= TotalPages(s.limit)
                          \/ (s.page + 1) * s.limit >= Depth
                         THEN "done" ELSE "paging"]
      /\ UNCHANGED <<credential, events>>

FetchPage(r) ==
  LET s == search[r]
      page == Page(s.limit, s.page)
  IN  /\ s.step = "paging"
      /\ search' = [search EXCEPT
           ![r].results = @ \o UsableOf(page),
           ![r].page = @ + 1,
           ![r].step = IF \/ page = <<>>
                          \/ s.page + 1 >= TotalPages(s.limit)
                          \/ (s.page + 1) * s.limit >= Depth
                         THEN "done" ELSE "paging"]
      /\ UNCHANGED <<credential, events>>

(* The provider finds the page too deep: what has been read is the answer. *)
PageTooDeep(r) ==
  /\ search[r].step = "paging"
  /\ search[r].page > 0
  /\ search' = [search EXCEPT ![r].step = "done", ![r].deep = TRUE]
  /\ UNCHANGED <<credential, events>>

(* Any other error, a timeout of 30 s among them: 502, and the pages read  *)
(* so far are lost.                                                        *)
FetchFails(r) ==
  /\ search[r].step = "paging"
  /\ search' = [search EXCEPT ![r].step = "failed", ![r].results = <<>>]
  /\ UNCHANGED <<credential, events>>

EventsChange(list) ==
  /\ events' = list
  /\ search' = [r \in Searches |->
                  [search[r] EXCEPT !.still = @ /\ search[r].step # "paging"]]
  /\ UNCHANGED credential

-----------------------------------------------------------------------------
Next ==
  \/ \E t \in Tenants : \/ \E a, b \in BOOLEAN : PutCredential(t, a, b)
                        \/ DeleteCredential(t)
                        \/ \E r \in Searches, n \in Limits : Begin(r, t, n)
  \/ \E r \in Searches : FetchPage(r) \/ PageTooDeep(r) \/ FetchFails(r)
  \/ \E list \in Lists : EventsChange(list)

Spec == Init /\ [][Next]_vars

-----------------------------------------------------------------------------
(* No tenant's searches use another tenant's key, whoever saves, turns off *)
(* or deletes a credential while they run.                                 *)
OwnKey(r) ==
  search[r].step = "paging" => search[r].key \in {search[r].tenant, ServerKey}

(* The pages a search has to read: as many as begin before Depth.          *)
Covered(limit) == limit * ((Depth + limit - 1) \div limit)

(* A search that is answered, of a list that stood still, is answered with *)
(* its usable events, each once and in their order, up to the first page   *)
(* boundary from Depth on, or with the beginning of that if a page was     *)
(* found too deep.  The limit of the request bounds the pages and not the  *)
(* answer.                                                                 *)
AnswerIsTheList ==
  \A r \in Searches :
    LET s == search'[r]
        all == UsableOf(
          SubSeq(events, 1, IF Covered(s.limit) < Len(events)
                              THEN Covered(s.limit) ELSE Len(events)))
    IN  search[r].step = "paging" /\ s.step = "done" /\ s.still =>
          IF s.deep THEN IsPrefix(s.results, all) ELSE s.results = all

(* All of that: with a key of its own a search finds what there is.        *)
SearchesHold ==
  /\ [](\A r \in Searches : OwnKey(r))
  /\ [][AnswerIsTheList]_vars
=============================================================================
