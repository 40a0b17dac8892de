-------------------------------- MODULE CAS --------------------------------
(***************************************************************************)
(* CAS tickets.  login mints a service ticket, the validation endpoints    *)
(* consume it with one GETDEL, and an application with proxying enabled    *)
(* may be given a proxy-granting ticket (PGT) through a callback and mint  *)
(* proxy tickets with it, which are validated in their turn.  The sign-in  *)
(* and confirmation that login demands, and the logout registry, are in    *)
(* Federation.                                                             *)
(***************************************************************************)
EXTENDS Naturals, Sequences, Functions

CONSTANTS
    Apps, Services,
    serviceURLs,    \* app -> its registered services (isValidService)
    ProxyEnabled,   \* apps with proxy_enabled
    Callers, Nil,
    MaxTickets, MaxPGTs     \* bounds

ASSUME CASAssumption == MaxTickets \in Nat /\ Nil \notin Nat

VARIABLES
    enabled,    \* apps with status 1
    tickets,    \* live ST and PT keys: id -> [service, isProxy, proxies]
    pgts,       \* live PGT keys: id -> [app, url, proxies]
    calls,
    made,       \* tickets so far: id -> [service, from], from the PGT it came of
    granted,    \* PGTs so far: id -> [url, from], from the ticket it came of
    accepted,   \* tickets that were validated
    reported,   \* chains a validation reported: [ticket, proxies]
    undone,     \* PGTs whose callback failed
    late        \* undone PGTs a later /proxy call still used

casVars == <<enabled, tickets, pgts, calls, made, granted, accepted, reported, undone, late>>
casHistory == <<accepted, reported, undone, late>>

NoCall == [op |-> "idle"]
Empty == [x \in {} |-> x]

InitCAS ==
    /\ enabled = Apps
    /\ tickets = Empty /\ pgts = Empty
    /\ calls = [w \in Callers |-> NoCall]
    /\ made = <<>> /\ granted = <<>>
    /\ accepted = {} /\ reported = {} /\ undone = {} /\ late = {}

With(f, k, v) == [x \in DOMAIN f \cup {k} |-> IF x = k THEN v ELSE f[x]]
Without(f, k) == Restrict(f, DOMAIN f \ {k})
Proceed(w, r) == calls' = [calls EXCEPT ![w] = r]

isValidService(a, service) == service \in serviceURLs[a]

SetStatus(a) ==
    /\ enabled' = IF a \in enabled THEN enabled \ {a} ELSE enabled \cup {a}
    /\ UNCHANGED <<tickets, pgts, calls, made, granted, casHistory>>

-----------------------------------------------------------------------------

\* Storing a new ticket under its prefix.
Store(service, proxy, chain, from) ==
    LET n == Len(made) + 1
    IN  /\ n <= MaxTickets
        /\ tickets' = With(tickets, n, [service |-> service, isProxy |-> proxy, proxies |-> chain])
        /\ made' = Append(made, [service |-> service, from |-> from])

\* login, once the user is signed in and has confirmed: a service ticket.
CreateTicket(a, service) ==
    /\ a \in enabled /\ isValidService(a, service)
    /\ Store(service, FALSE, <<>>, Nil)
    /\ UNCHANGED <<enabled, pgts, calls, granted, casHistory>>

\* Mutant: GET in place of GETDEL.
GetTicket(t) == tickets

\* ConsumeTicket: whatever the answer, the ticket is gone.
ConsumeTicket(t) == Without(tickets, t)

Accept(t) ==
    /\ accepted' = accepted \cup {t}
    /\ reported' = reported \cup {[ticket |-> t, proxies |-> tickets[t].proxies]}

\* /validate of CAS 1.0 looks at the service alone.
validate(t, service) ==
    /\ t \in DOMAIN tickets
    /\ tickets' = ConsumeTicket(t)
    /\ IF tickets[t].service = service THEN Accept(t) ELSE UNCHANGED <<accepted, reported>>
    /\ UNCHANGED <<enabled, pgts, calls, made, granted, undone, late>>

\* /serviceValidate and /proxyValidate; only the second takes proxy tickets.
\* A ticket names no application: the endpoint may be another one's.
doValidate(w, a, t, service, allowProxy, pgtURL) ==
    /\ calls[w] = NoCall /\ t \in DOMAIN tickets
    /\ tickets' = ConsumeTicket(t)
    /\ IF (tickets[t].isProxy => allowProxy) /\ tickets[t].service = service
       THEN /\ Accept(t)
            /\ Proceed(w, IF pgtURL # Nil /\ a \in ProxyEnabled /\ isValidService(a, pgtURL)
                          THEN [op |-> "pgt", app |-> a, url |-> pgtURL, of |-> t,
                                proxies |-> tickets[t].proxies]
                          ELSE NoCall)
       ELSE UNCHANGED <<accepted, reported, calls>>
    /\ UNCHANGED <<enabled, pgts, made, granted, undone, late>>

\* CreatePGT, before the callback that delivers it.
CreatePGT(w) ==
    LET r == calls[w]
        n == Len(granted) + 1
    IN  /\ r.op = "pgt" /\ n <= MaxPGTs
        /\ pgts' = With(pgts, n, [app |-> r.app, url |-> r.url, proxies |-> r.proxies])
        /\ granted' = Append(granted, [url |-> r.url, from |-> r.of])
        /\ Proceed(w, [op |-> "callback", pgt |-> n])
        /\ UNCHANGED <<enabled, tickets, made, casHistory>>

DeletePGT(p) == Without(pgts, p)

\* maybeIssuePGT's end: a 2xx answer, or the PGT is deleted.
pgtCallback(w) ==
    LET p == calls[w].pgt
    IN  /\ calls[w].op = "callback"
        /\ \/ UNCHANGED <<pgts, undone>>
           \/ pgts' = DeletePGT(p) /\ undone' = undone \cup {p}
        /\ Proceed(w, NoCall)
        /\ UNCHANGED <<enabled, tickets, made, granted, accepted, reported, late>>

\* /proxy: the application, then the PGT, which stays.
GetPGT(w, a, p, target) ==
    /\ calls[w] = NoCall
    /\ a \in enabled /\ a \in ProxyEnabled /\ isValidService(a, target)
    /\ p \in DOMAIN pgts
    /\ pgts[p].app = a
    /\ Proceed(w, [op |-> "proxy", pgt |-> p, row |-> pgts[p], service |-> target, fresh |-> p \notin undone])
    /\ UNCHANGED <<enabled, tickets, pgts, made, granted, casHistory>>

\* Mutant: the inherited chain is dropped.
OwnURL(pgt) == <<pgt.url>>

\* The proxying service, then those it inherited.
ProxyChain(pgt) == <<pgt.url>> \o pgt.proxies

CreateProxyTicket(w) ==
    LET r == calls[w]
    IN  /\ r.op = "proxy"
        /\ Store(r.service, TRUE, ProxyChain(r.row), r.pgt)
        /\ late' = IF r.fresh THEN late ELSE late \cup {r.pgt}
        /\ Proceed(w, NoCall)
        /\ UNCHANGED <<enabled, pgts, granted, accepted, reported, undone>>

\* The lifetimes of the keys.
TicketExpires ==
    /\ \/ \E t \in DOMAIN tickets : tickets' = Without(tickets, t) /\ UNCHANGED pgts
       \/ \E p \in DOMAIN pgts : pgts' = Without(pgts, p) /\ UNCHANGED tickets
    /\ UNCHANGED <<enabled, calls, made, granted, casHistory>>

NextCAS ==
    \/ \E a \in Apps : SetStatus(a) \/ \E s \in Services : CreateTicket(a, s)
    \/ \E t \in DOMAIN tickets, s \in Services : validate(t, s)
    \/ \E w \in Callers :
          \/ \E a \in Apps, t \in DOMAIN tickets, s \in Services, u \in Services \cup {Nil},
                allowProxy \in BOOLEAN : doValidate(w, a, t, s, allowProxy, u)
          \/ \E a \in Apps, p \in DOMAIN pgts, s \in Services : GetPGT(w, a, p, s)
          \/ CreatePGT(w) \/ pgtCallback(w) \/ CreateProxyTicket(w)
    \/ TicketExpires

SpecCAS == InitCAS /\ [][NextCAS]_casVars

-----------------------------------------------------------------------------

(***************************************************************************)
(* Tickets are one-time tokens: however many validations present one, at   *)
(* whichever endpoints and applications, the step that answers positively  *)
(* is the step that takes it out of the store, and no other ever does      *)
(* (ConsumeTicket).  Expiry and refusal lose it.                           *)
(***************************************************************************)
TicketStore == INSTANCE OneTime WITH
    Tokens   <- 1 .. MaxTickets,
    fresh    <- (1 .. MaxTickets) \ DOMAIN made,
    live     <- DOMAIN tickets,
    taken    <- {},
    honoured <- accepted

TicketsAreOneTime == TicketStore!Spec

\* chain names the proxies an authentication went through before ticket t, newest
\* first: path is the line of tickets that t came of, each by a PGT of the next.
IsLineage(t, chain) ==
    \E path \in [1 .. Len(chain) + 1 -> DOMAIN made] :
        /\ path[1] = t
        /\ \A i \in 1 .. Len(chain) :
              LET from == made[path[i]].from IN
              /\ from # Nil
              /\ chain[i] = granted[from].url
              /\ path[i + 1] = granted[from].from
        /\ made[path[Len(chain) + 1]].from = Nil

(***************************************************************************)
(* What a validation reports as <cas:proxies> is every service the         *)
(* authentication was proxied through, most recent first, across any       *)
(* number of proxy-granting tickets (maybeIssuePGT, CreateProxyTicket).    *)
(***************************************************************************)
ChainIsLineage == \A r \in reported : IsLineage(r.ticket, r.proxies)

(***************************************************************************)
(* A PGT whose callback failed is never used again: no call of /proxy that *)
(* comes after it was rolled back mints a ticket with it (DeletePGT).      *)
(***************************************************************************)
RolledBackIsDead == late = {}

\* A proxy chain is the line of proxies it went through, and a PGT that was rolled
\* back is dead (maybeIssuePGT, CreateProxyTicket, doValidate).
ProxiesHold == ChainIsLineage /\ RolledBackIsDead
=============================================================================
