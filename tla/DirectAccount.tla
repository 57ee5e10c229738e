----------------------------- MODULE DirectAccount -----------------------------
(***************************************************************************)
(* What the direct page says of the account and of the run                 *)
(* (demo/direct/main.ts, quotas.ts, dns/): who is connected, through       *)
(* Globus or with pasted keys, the quotas of the account, and whether the  *)
(* run's spore.host name resolves to its address.  Sign-ins, quotas and    *)
(* lookups are answered in any order, and nothing on the page says which   *)
(* of them an answer belongs to.                                           *)
(*                                                                         *)
(* A run's number stands for its instance and its address.  spored, the    *)
(* DNS and AWS are external: an instance registers its slugified name in   *)
(* its account, some time after it boots, and a record may outlive it.     *)
(***************************************************************************)
EXTENDS Naturals, Sequences, FiniteSets, Functions

CONSTANTS
    Accounts,     \* one of them is the one the role federates into
    GlobusAccount,
    Configured,   \* client id and role are known, from the URL or the session's storage
    NoAccount,
    RunNames,     \* what is typed in the name's field
    SlugOf,       \* from RunNames: the dns-name tag; the page looks up the name as typed
    MaxSignIns,   \* bound: sign-ins
    MaxLaunches   \* bound: runs

ASSUME DirectAccountConstants ==
    /\ GlobusAccount \in Accounts /\ NoAccount \notin Accounts
    /\ Configured \in BOOLEAN /\ DOMAIN SlugOf = RunNames /\ {MaxSignIns, MaxLaunches} \subseteq Nat

VARIABLES
    signIns,      \* how many sign-ins there were
    verifying,    \* those under way: [how, account]
    webpage,      \* what the page holds: [account, quotas, run, name, watched, told, confirmed]
    quotaReads,   \* the accounts whose quotas are being read
    lookups,      \* the lookups under way: [run, host]
    launches,     \* how many runs there were
    homes,        \* from the runs that live, to the account of each
    names,        \* from the runs, to the name of each
    records,      \* the DNS: a set of [host, run]
    mixed         \* history: "quotas", "account" or "lookup", once such answers overlapped

accountVars == <<signIns, verifying, webpage, quotaReads, lookups, launches, homes, names, records, mixed>>

\* Connected to nobody, with nothing launched.
AtLoad == [account |-> NoAccount, quotas |-> NoAccount, run |-> 0, name |-> "", watched |-> FALSE,
           told |-> "", confirmed |-> FALSE]

AccountInit ==
    /\ signIns = 0 /\ verifying = {} /\ webpage = AtLoad /\ quotaReads = {} /\ lookups = {}
    /\ launches = 0 /\ homes = <<>> /\ names = <<>> /\ records = {} /\ mixed = {}
-----------------------------------------------------------------------------
(***************************************************************************)
(* The page is left for Globus and loaded again with a code, which it      *)
(* exchanges: what it held is gone, the configuration is read back from    *)
(* the session's storage.                                                  *)
(***************************************************************************)
GlobusRedirect ==
    /\ Configured /\ signIns < MaxSignIns
    /\ signIns' = signIns + 1
    /\ verifying' = {[how |-> "globus", account |-> GlobusAccount]}
    /\ webpage' = AtLoad /\ quotaReads' = {} /\ lookups' = {} /\ mixed' = {}
    /\ UNCHANGED <<launches, homes, names, records>>

\* The button is not disabled while keys are verified.
PasteKeys(a) ==
    /\ signIns < MaxSignIns
    /\ signIns' = signIns + 1
    /\ verifying' = verifying \cup {[how |-> "keys", account |-> a]}
    /\ UNCHANGED <<webpage, quotaReads, lookups, launches, homes, names, records, mixed>>

SignInRefused(v) ==
    /\ verifying' = verifying \ {v}
    /\ UNCHANGED <<signIns, webpage, quotaReads, lookups, launches, homes, names, records, mixed>>

\* Whichever is answered last is connected, and its quotas are asked for.
ConnectWithCreds(v) ==
    /\ verifying' = verifying \ {v}
    /\ webpage' = [webpage EXCEPT !.account = v.account, !.quotas = NoAccount]
    /\ quotaReads' = quotaReads \cup {v.account}
    /\ mixed' = mixed \cup (IF quotaReads # {} THEN {"quotas"} ELSE {})
                      \cup (IF webpage.watched /\ v.account # webpage.account THEN {"account"} ELSE {})
    /\ UNCHANGED <<signIns, lookups, launches, homes, names, records>>

\* Each family of quotas is read by itself: what cannot be read is a dash, and nothing fails.
FetchEc2Quotas(a) == {a, NoAccount}

ShowQuotas(a) ==
    /\ a \in quotaReads /\ quotaReads' = quotaReads \ {a}
    /\ \E q \in FetchEc2Quotas(a) : webpage' = [webpage EXCEPT !.quotas = q]
    /\ UNCHANGED <<signIns, verifying, lookups, launches, homes, names, records, mixed>>
-----------------------------------------------------------------------------
\* Bound: one run at a time.  Signing in again gives the button back during a run (DirectPage).
LaunchesAs(n) ==
    /\ webpage.account # NoAccount /\ webpage.run = 0 /\ launches < MaxLaunches
    /\ launches' = launches + 1
    /\ homes' = [r \in DOMAIN homes \cup {launches'} |-> IF r = launches' THEN webpage.account ELSE homes[r]]
    /\ names' = Append(names, n)
    /\ webpage' = [webpage EXCEPT !.run = launches', !.name = n, !.watched = TRUE, !.told = ""]
    /\ UNCHANGED <<signIns, verifying, quotaReads, lookups, records, mixed>>

\* The name an instance has in the DNS, and the one the page asks for.
SporeHostName(name, a) == <<name, a>>

\* External: spored replaces what its name resolved to.
Registers(r) ==
    /\ r \in DOMAIN homes
    /\ LET host == SporeHostName(SlugOf[names[r]], homes[r]) IN
         records' = {x \in records : x.host # host} \cup {[host |-> host, run |-> r]}
    /\ UNCHANGED <<signIns, verifying, webpage, quotaReads, lookups, launches, homes, names, mixed>>

\* External.
Terminates(r) ==
    /\ r \in DOMAIN homes /\ homes' = Restrict(homes, DOMAIN homes \ {r})
    /\ records' \in {records, {x \in records : x.run # r}}
    /\ UNCHANGED <<signIns, verifying, webpage, quotaReads, lookups, launches, names, mixed>>

\* The client in use finds the instance, or does not: in another account it never does.
Visible == webpage.run \in DOMAIN homes /\ homes[webpage.run] = webpage.account

CheckDns ==
    /\ webpage.watched /\ Visible /\ ~ webpage.confirmed
    /\ lookups' = lookups \cup {[run |-> webpage.run, host |-> SporeHostName(webpage.name, webpage.account)]}
    /\ UNCHANGED <<signIns, verifying, webpage, quotaReads, launches, homes, names, records, mixed>>

NoLongerVisible ==
    /\ webpage.watched /\ ~ Visible
    /\ webpage' = [webpage EXCEPT !.watched = FALSE, !.told = "reaped"]
    /\ UNCHANGED <<signIns, verifying, quotaReads, lookups, launches, homes, names, records, mixed>>

\* The addresses of a name: none is an answer, not a failure.
ResolveA(host) == {x.run : x \in {y \in records : y.host = host}}

\* The answer is taken for the run that is on the page by then.
Resolves(l) ==
    /\ lookups' = lookups \ {l}
    /\ webpage' = [webpage EXCEPT !.confirmed = @ \/ l.run \in ResolveA(l.host)]
    /\ UNCHANGED <<signIns, verifying, quotaReads, launches, homes, names, records, mixed>>

\* Shown, and tried again with the next poll.
LookupFails(l) ==
    /\ lookups' = lookups \ {l}
    /\ UNCHANGED <<signIns, verifying, webpage, quotaReads, launches, homes, names, records, mixed>>

\* Variant: the next run begins confirmed.
RunReset_KeepsConfirmed ==
    /\ webpage.run # 0 /\ ~ webpage.watched
    /\ webpage' = [webpage EXCEPT !.run = 0, !.name = "", !.told = ""]
    /\ mixed' = mixed \cup (IF lookups # {} THEN {"lookup"} ELSE {})
    /\ UNCHANGED <<signIns, verifying, quotaReads, lookups, launches, homes, names, records>>

\* Reset for another run; the lookups of this one stay under way.
RunReset ==
    /\ webpage.run # 0 /\ ~ webpage.watched
    /\ webpage' = [webpage EXCEPT !.run = 0, !.name = "", !.told = "", !.confirmed = FALSE]
    /\ mixed' = mixed \cup (IF lookups # {} THEN {"lookup"} ELSE {})
    /\ UNCHANGED <<signIns, verifying, quotaReads, lookups, launches, homes, names, records>>

AccountNext ==
    \/ GlobusRedirect \/ CheckDns \/ NoLongerVisible \/ RunReset
    \/ \E a \in Accounts : PasteKeys(a) \/ ShowQuotas(a)
    \/ \E v \in verifying : SignInRefused(v) \/ ConnectWithCreds(v)
    \/ \E n \in RunNames : LaunchesAs(n)
    \/ \E r \in 1 .. MaxLaunches : Registers(r) \/ Terminates(r)
    \/ \E l \in lookups : Resolves(l) \/ LookupFails(l)

AccountSpec == AccountInit /\ [][AccountNext]_accountVars
-----------------------------------------------------------------------------
(***************************************************************************)
(* The quotas on the page are those of the account it is connected to,     *)
(* unless it was connected again before the last were read                 *)
(* (main.ts:277): an answer does not say whose it is.                      *)
(***************************************************************************)
QuotasAreOfTheAccount ==
    "quotas" \notin mixed => webpage.quotas \in {NoAccount, webpage.account}

(***************************************************************************)
(* "DNS trust confirmed" is of this run: a record of its own name has      *)
(* pointed at it, so the name needed no slug; only a lookup that outlives  *)
(* the reset confirms the next run for the one before (main.ts:459, 518).  *)
(***************************************************************************)
ConfirmedIsThisRun ==
    webpage.confirmed /\ "lookup" \notin mixed =>
        /\ webpage.run # 0
        /\ SlugOf[webpage.name] = webpage.name /\ webpage.name = names[webpage.run]

(***************************************************************************)
(* "No longer visible, terminated and reaped" is so, unless the page was   *)
(* connected to another account during the run (main.ts:489).              *)
(***************************************************************************)
ReapedIsTrue ==
    webpage.told = "reaped" /\ "account" \notin mixed => webpage.run \notin DOMAIN homes

PageIsTruthful ==
    /\ webpage.told \in {"", "reaped"} /\ webpage.watched \in BOOLEAN
    /\ QuotasAreOfTheAccount /\ ConfirmedIsThisRun /\ ReapedIsTrue
=============================================================================
