----------------------------- MODULE CloudSignIn -----------------------------
(***************************************************************************)
(* Signing in to the clouds behind a datasource.  For DynamoDB: a profile  *)
(* of the AWS config, a token of the AWS cache or one got by a device      *)
(* code, then the account, its role and the role's credentials.  For D1:   *)
(* wrangler's token and account, which are two commands, the stored tokens *)
(* renewed from them, and the requests that use a stored token.            *)
(* Source: src/app_datasource.go, src/internal/datasourceops/              *)
(* provider_special.go, src/internal/console/{dynamodb_client,d1_adapter}. *)
(***************************************************************************)
EXTENDS Naturals, Sequences, FiniteSets

CONSTANTS
    CsUrls,      \* start URLs of AWS portals
    CsListings,  \* what a portal lists, one entry a page; "" has no id
    CsInterval,  \* seconds between polls when the server names none
    CsLifetime,  \* seconds a device code lives when the server names none
    CsEnd,       \* bound: the last second
    CsSources,   \* D1 datasources
    CsUsers,     \* [Cloudflare users -> their accounts]
    CsTokens     \* bound: renewals and edits of stored tokens

ASSUME CloudAssumption ==
    /\ CsInterval \in Nat \ {0} /\ CsLifetime \in Nat /\ CsEnd \in Nat /\ CsTokens \in Nat
    /\ CsListings \subseteq Seq(STRING)

VARIABLES
    csNow,       \* the second
    csProfile,   \* the profile as the AWS config has it, and the portal's listings
    csSso,       \* the authorization of DynamoDB
    csWrangler,  \* the user wrangler is logged in as
    csStore,     \* [CsSources -> account and token of the datasource]
    csD1,        \* the login of D1
    csAsk,       \* a request with a stored token
    csEdits,     \* edits and renewals so far
    csMixed      \* history: a login's token and account were not of one user
csvars == <<csNow, csProfile, csSso, csWrangler, csStore, csD1, csAsk, csEdits, csMixed>>
ssovars == <<csNow, csProfile, csSso>>
d1cvars == <<csWrangler, csStore, csD1, csAsk, csEdits, csMixed>>

CsAccounts == UNION {CsUsers[u] : u \in DOMAIN CsUsers}
NoOne == "nobody"
Blank == ""   \* an empty string: named, for the provers to know it only as a constant

-----------------------------------------------------------------------------

(* awsParseProfileConfigs: the profile's own start URL, else its session's. *)
StartURL == IF csProfile.url # Blank THEN csProfile.url ELSE csProfile.session

(* awsResolveSSOCacheToken: of the tokens for the URL, any for none, that
   have not run out, one that lasts longest. *)
\* Mutant: a profile takes any portal's token.
AnyToken(cache) == {t \in cache : t.until >= csNow}
CacheTokens(cache) == {t \in cache : (StartURL = Blank \/ t.url = StartURL) /\ t.until >= csNow}

(* awsResolveProfileConfig: the profile asked for, else the default one, else
   the only one. *)
Resolved(asked, names) ==
    IF asked # Blank THEN {asked} \cap names
    ELSE IF "default" \in names THEN {"default"}
    ELSE IF Cardinality(names) = 1 THEN names ELSE {}

At(pc) == csSso.pc = pc
SsoMoves(pc) == csSso' = [csSso EXCEPT !.pc = pc]
SsoKeeps == UNCHANGED <<csNow, csProfile>> /\ UNCHANGED d1cvars
TokenFound(t) == csSso' = [csSso EXCEPT !.pc = "accounts", !.token = t, !.page = 1, !.took = csNow,
                                        !.interval = 0, !.next = 0, !.last = 0]

ResolveProfile ==
    /\ At("config")
    /\ \E asked \in {Blank, "x"}, names \in SUBSET {"default", "x", "y"} :
         SsoMoves(IF Resolved(asked, names) = {} THEN "failed" ELSE "begin")
    /\ SsoKeeps

EnsureAccessToken ==
    /\ At("begin")
    /\ \E cache \in SUBSET [url : CsUrls, until : {0, 2, 3}] : LET fits == CacheTokens(cache) IN
         \/ \E t \in fits : (\A o \in fits : o.until <= t.until) /\ TokenFound(t)
         \/ fits = {} /\ SsoMoves(IF StartURL = Blank THEN "failed" ELSE "device")
    /\ SsoKeeps

(* The server's interval and lifetime count when it names them; the window
   gives up after CsLifetime all told, an agent's call does not. *)
Told(told, default) == IF told > 0 THEN told ELSE default
StartDeviceAuthorization ==
    /\ At("device")
    /\ \E interval \in {0, CsInterval + 1}, lives \in {0, CsLifetime + 1}, window \in BOOLEAN :
         csSso' = [csSso EXCEPT !.pc = "poll", !.interval = Told(interval, CsInterval), !.next = csNow,
                     !.last = IF window THEN csNow + CsLifetime ELSE csNow + Told(lives, CsLifetime)]
    /\ SsoKeeps

(* CreateToken's answer: the token, to wait, to slow down, or an error. *)
PollAnswered ==
    /\ At("poll") /\ csNow >= csSso.next /\ csNow <= csSso.last
    /\ \/ \E lives \in {0, 1} : TokenFound([url |-> StartURL, until |-> csNow + Told(lives, 2)])
       \/ \E slower \in {0, 1} :
            csSso' = [csSso EXCEPT !.interval = @ + slower, !.next = csNow + csSso.interval + slower]
    /\ SsoKeeps
PollTimesOut ==
    /\ At("poll") /\ csNow > csSso.last
    /\ SsoMoves("failed")
    /\ SsoKeeps

(* ListAccounts and ListAccountRoles read every page; entries without an id
   are skipped.  One that the profile does not name must be the only one. *)
Listing(pc) == IF pc = "accounts" THEN csProfile.accounts ELSE csProfile.roles
Given(pc) == IF pc = "accounts" THEN csProfile.account ELSE csProfile.role
\* Mutant: the first page only.
FirstPage(pc) == csSso.page > 1 \/ Listing(pc) = <<>>
LastPage(pc) == csSso.page > Len(Listing(pc))
Collected(out, entry) == IF entry = Blank THEN out ELSE Append(out, entry)
Found(pc, id) ==
    IF pc = "accounts" THEN csSso' = [csSso EXCEPT !.pc = "roles", !.account = id, !.page = 1, !.out = <<>>]
    ELSE csSso' = [csSso EXCEPT !.pc = "credentials", !.role = id, !.page = 0, !.out = <<>>]
ReadPage(pc) ==
    /\ At(pc) /\ Given(pc) = Blank /\ ~LastPage(pc) /\ csSso.token.until >= csNow
    /\ LET entry == Listing(pc)[csSso.page] IN
         csSso' = [csSso EXCEPT !.page = @ + 1, !.out = Collected(@, entry)]
    /\ SsoKeeps
Chosen(pc) ==
    /\ At(pc)
    /\ IF Given(pc) # Blank THEN Found(pc, Given(pc))
       ELSE /\ LastPage(pc)
            /\ IF Len(csSso.out) = 1 THEN Found(pc, csSso.out[1]) ELSE SsoMoves("failed")
    /\ SsoKeeps
GetRoleCredentials ==
    /\ At("credentials") /\ csSso.token.until >= csNow
    /\ SsoMoves("done")
    /\ SsoKeeps
SsoFails ==
    /\ csSso.pc \in {"begin", "device", "poll", "accounts", "roles", "credentials"}
    /\ SsoMoves("failed")
    /\ SsoKeeps
CsTick ==
    /\ csNow < CsEnd /\ csSso.pc \notin {"config", "begin", "done", "failed"}
    /\ csNow' = csNow + 1
    /\ UNCHANGED <<csProfile, csSso>> /\ UNCHANGED d1cvars

-----------------------------------------------------------------------------

D1Idle == [pc |-> "idle"]
D1Keeps == UNCHANGED ssovars /\ UNCHANGED <<csAsk>>

(* d1OAuthLogin: the session there is, unless another is forced; then the
   browser, once. *)
D1OAuthLogin ==
    /\ csD1 = D1Idle
    /\ \E forced \in BOOLEAN : csD1' = [pc |-> IF forced THEN "login" ELSE "token", again |-> forced]
    /\ UNCHANGED <<csWrangler, csStore, csEdits, csMixed>> /\ D1Keeps
D1Fails == csD1' = IF csD1.again THEN D1Idle ELSE [csD1 EXCEPT !.pc = "login"]
ResolveWranglerToken ==
    /\ csD1.pc = "token"
    /\ D1Fails \/ (csWrangler # NoOne /\ csD1' = [pc |-> "whoami", again |-> csD1.again, user |-> csWrangler])
    /\ UNCHANGED <<csWrangler, csStore, csEdits, csMixed>> /\ D1Keeps
(* The account wrangler names, or the only one there is. *)
Selected(named) == IF named = Blank /\ Cardinality(CsUsers[csWrangler]) = 1 THEN CHOOSE a \in CsUsers[csWrangler] : TRUE ELSE named
ResolveWranglerAccounts ==
    /\ csD1.pc = "whoami"
    /\ \/ D1Fails /\ UNCHANGED csMixed
       \/ /\ csWrangler # NoOne
          /\ \E named \in CsUsers[csWrangler] \cup {Blank} :
               /\ csD1' = [pc |-> "refresh", user |-> csD1.user, account |-> Selected(named), accounts |-> CsUsers[csWrangler]]
               /\ csMixed' = (csMixed \/ csWrangler # csD1.user)
    /\ UNCHANGED <<csWrangler, csStore, csEdits>> /\ D1Keeps
(* "wrangler login" logs a user in, fails, or says that one is already. *)
WranglerLogin ==
    /\ csD1.pc = "login"
    /\ \/ \E u \in DOMAIN CsUsers : csWrangler' = u /\ csD1' = [pc |-> "token", again |-> TRUE]
       \/ UNCHANGED csWrangler /\ csD1' = D1Idle
       \/ csWrangler # NoOne /\ UNCHANGED csWrangler /\ csD1' = [pc |-> "token", again |-> TRUE]
    /\ UNCHANGED <<csStore, csEdits, csMixed>> /\ D1Keeps

(* d1RefreshStoredTokens, of the service only: the token datasources of the
   account, as they were listed, are written one by one.  Records that
   delegate the token, which are written too, are in DatasourceRecords. *)
\* Mutant: every token datasource.
EveryTokenSource(s, account) == s.token # NoOne
Renewed(s, account) == s.token # NoOne /\ (account = Blank \/ s.account = Blank \/ s.account = account)
RefreshStoredTokens ==
    /\ csD1.pc = "refresh"
    /\ csMixed' = (csMixed \/ csD1.account = Blank)
    /\ LET renewed == {i \in CsSources : Renewed(csStore[i], csD1.account)} IN
         csD1' = [pc |-> "renew", session |-> csD1,
                  list |-> [i \in renewed |-> [csStore[i] EXCEPT !.token = csD1.user]]]
    /\ UNCHANGED <<csWrangler, csStore, csEdits>> /\ D1Keeps
Session(s) == [pc |-> "session", user |-> s.user, accounts |-> IF s.account = Blank THEN s.accounts ELSE {s.account}]
RenewOne ==
    /\ csD1.pc = "renew"
    /\ LET left == csD1.list IN
         \/ left = <<>> /\ csD1' = Session(csD1.session) /\ UNCHANGED csStore
         \/ \E i \in DOMAIN left :
              /\ csD1' = [csD1 EXCEPT !.list = [j \in DOMAIN left \ {i} |-> left[j]]]
              /\ \/ csStore' = [csStore EXCEPT ![i] = left[i]]
                 \/ UNCHANGED csStore
    /\ UNCHANGED <<csWrangler, csEdits, csMixed>> /\ D1Keeps
WindowLoggedIn ==
    /\ csD1.pc = "refresh" /\ csD1' = Session(csD1)
    /\ UNCHANGED <<csWrangler, csStore, csEdits, csMixed>> /\ D1Keeps

(* With the session's token and one of its accounts the databases are listed,
   or one is created. *)
NoAsk == [pc |-> "idle"]
Ask(account, token) == csAsk' = [pc |-> "request", account |-> account, token |-> token]
AskKeeps == UNCHANGED ssovars /\ UNCHANGED <<csWrangler, csStore, csEdits, csMixed>>
SessionEnds == csD1.pc = "session" /\ csD1' = D1Idle
D1ListCloudDatabases ==
    /\ csAsk = NoAsk /\ SessionEnds
    /\ csAsk' = NoAsk \/ \E account \in csD1.accounts : Ask(account, csD1.user)
    /\ AskKeeps

(* D1ListCloudDatabasesForDatasource: the stored account must be the one that
   is asked for; only then is the secret read, from the record read before. *)
\* Mutant: the account asked for, whatever the record says.
AccountAsked(s, account) == account # Blank
AccountStored(s, account) == s.account # Blank /\ s.account = account
ListCloudDatabasesForDatasource ==
    /\ csAsk = NoAsk
    /\ \E i \in CsSources, account \in CsAccounts :
         /\ csStore[i].token # NoOne /\ AccountStored(csStore[i], account)
         /\ Ask(account, csStore[i].token)
    /\ UNCHANGED csD1 /\ AskKeeps

(* A statement goes to the account of the record, with its token. *)
ExecuteCloud ==
    /\ csAsk = NoAsk
    /\ \E i \in CsSources : csStore[i].account # Blank /\ csStore[i].token # NoOne /\ Ask(csStore[i].account, csStore[i].token)
    /\ UNCHANGED csD1 /\ AskKeeps
CloudflareRequest ==
    /\ csAsk # NoAsk /\ csAsk' = NoAsk
    /\ UNCHANGED csD1 /\ AskKeeps

(* The user logs wrangler in elsewhere, and edits a datasource. *)
WranglerElsewhere ==
    /\ csEdits < CsTokens /\ csEdits' = csEdits + 1
    /\ csWrangler' \in (DOMAIN CsUsers \cup {NoOne}) \ {csWrangler}
    /\ UNCHANGED <<csStore, csD1, csMixed>> /\ D1Keeps
Fits(s) == s.token = NoOne \/ s.account = Blank \/ s.account \in CsUsers[s.token]
SourceRecords == {s \in [account : CsAccounts \cup {Blank}, token : DOMAIN CsUsers \cup {NoOne}] : Fits(s)}
SourceEdited ==
    /\ csEdits < CsTokens /\ csEdits' = csEdits + 1
    /\ \E i \in CsSources, s \in SourceRecords : csStore' = [csStore EXCEPT ![i] = s]
    /\ UNCHANGED <<csWrangler, csD1, csMixed>> /\ D1Keeps

-----------------------------------------------------------------------------

(* A profile that names an account or a role has no need of a listing. *)
CsProfiles ==
    {p \in [url : CsUrls \cup {Blank}, session : CsUrls \cup {Blank}, account : {Blank, "a"}, role : {Blank, "r"},
            accounts : CsListings, roles : CsListings] :
       /\ p.url # p.session \/ p.url = Blank
       /\ p.account # Blank => p.accounts = <<>>
       /\ p.role # Blank => p.roles = <<>>}
CloudInit ==
    /\ csNow = 1
    /\ csProfile \in CsProfiles
    /\ csSso = [pc |-> "config", token |-> [url |-> Blank, until |-> 0], interval |-> 0, next |-> 0, last |-> 0,
                page |-> 0, out |-> <<>>, account |-> Blank, role |-> Blank, took |-> 0]
    /\ csWrangler = NoOne
    /\ csStore \in [CsSources -> SourceRecords]
    /\ csD1 = D1Idle /\ csAsk = NoAsk
    /\ csEdits = 0 /\ csMixed = FALSE

SsoNext ==
    \/ ResolveProfile \/ EnsureAccessToken \/ StartDeviceAuthorization \/ PollAnswered \/ PollTimesOut
    \/ \E pc \in {"accounts", "roles"} : ReadPage(pc) \/ Chosen(pc)
    \/ GetRoleCredentials \/ SsoFails \/ CsTick
D1CloudNext ==
    \/ D1OAuthLogin \/ ResolveWranglerToken \/ ResolveWranglerAccounts \/ WranglerLogin
    \/ RefreshStoredTokens \/ RenewOne \/ WindowLoggedIn
    \/ D1ListCloudDatabases \/ ListCloudDatabasesForDatasource \/ ExecuteCloud \/ CloudflareRequest
    \/ WranglerElsewhere \/ SourceEdited
CloudNext == SsoNext \/ D1CloudNext
CloudSpec == CloudInit /\ [][CloudNext]_csvars

-----------------------------------------------------------------------------

OnlyId(listing, id) ==
    \E i \in DOMAIN listing : \A j \in DOMAIN listing : listing[j] = IF j = i THEN id ELSE Blank
OnlyOr(given, listing, id) == id = given \/ (given = Blank /\ id # Blank /\ OnlyId(listing, id))

(* The role's credentials are those of the account and the role the profile
   names, or of the only ones its portal has; the token was for the profile's
   portal and had not run out when it was taken. *)
CredentialsOwn ==
    /\ csSso.took > 0 => csSso.token.until >= csSso.took /\ (StartURL # Blank => csSso.token.url = StartURL)
    /\ csSso.pc = "done" => /\ OnlyOr(csProfile.account, csProfile.accounts, csSso.account)
                            /\ OnlyOr(csProfile.role, csProfile.roles, csSso.role)

(* A token that a datasource stores, or that is sent with a request, is one
   of a user who has the account, unless a login ever took the token of one
   user with the account of another, or renewed tokens without an account. *)
TokensFit == ~csMixed => (\A i \in CsSources : Fits(csStore[i])) /\ (csAsk # NoAsk => Fits(csAsk))
CloudSafe == CredentialsOwn /\ TokensFit
=============================================================================
