------------------------------ MODULE InboundForm ------------------------------
(***************************************************************************)
(* The form in which an administrator makes or edits an inbound            *)
(* (src/web/src/routes/InboundsPageForms.tsx, with the pure functions and  *)
(* the table of capabilities in InboundsPage.tsx).  The panel ships its    *)
(* own table of what each protocol supports; the server's table replaces   *)
(* it when it arrives, which may be while a form is open.  Every choice of *)
(* a template, protocol, transport or security rewrites the other fields;  *)
(* what is sent is normalised once more.                                   *)
(*                                                                         *)
(* The value of a field is "none" (blank), "seed" (a default, a template's *)
(* or a generated value), "own" (stored before, or typed) or "cert" (taken *)
(* from the certificate in the settings).  Fields that every rule treats   *)
(* alike are one field here: the two of a certificate, of a key pair, of   *)
(* the REALITY target and of the hysteria2 bandwidth.                      *)
(***************************************************************************)
EXTENDS Integers, FiniteSets

CONSTANT MaxEdits    \* changes made in one form

ASSUME MaxEditsAssumption == MaxEdits \in Nat

VARIABLES
    table,       \* activeInboundCapabilities: the panel's own or the server's
    form,        \* the open form, or NoForm
    keysAsked,   \* requests for a REALITY key pair without an answer
    sent,        \* what has been submitted, or NoForm
    sentClient   \* the client that has been submitted from its own form, or NoForm

formVars == <<table, form, keysAsked, sent, sentClient>>

-----------------------------------------------------------------------------
(* The table of capabilities *)

XrayTransports == {"vless", "vmess", "trojan"}
SingboxProtocols == {"hysteria2", "tuic", "shadowtls"}
inboundProtocols == XrayTransports \cup {"shadowsocks", "socks", "http"} \cup SingboxProtocols
inboundSecurities == {"none", "tls", "reality"}

WSFields == {"ws_path", "ws_host"}
GRPCFields == {"grpc_service_name"}
XHTTPFields == {"xhttp_path", "xhttp_mode"}
TransportFields == WSFields \cup GRPCFields \cup XHTTPFields
singboxTlsFields == {"tls_cert", "tls_sni"}
xrayTlsFields == singboxTlsFields \cup {"tls_fingerprint", "tls_alpn"}
realityFields == {"reality_target", "reality_short_id", "reality_keys", "tls_fingerprint"}

advancedFields ==
    TransportFields \cup xrayTlsFields \cup realityFields \cup
    {"ss_method", "hy2_mbps", "hy2_obfs", "hy2_obfs_password", "hy2_mport",
     "tuic_congestion_control", "tuic_zero_rtt", "shadowtls_version", "shadowtls_password"}

OnlyTransport(n) == [networks |-> {n}, defaultNetwork |-> n, securities |-> [default |-> {"none"}],
                     defaultSecurity |-> "none", protocolFields |-> {},
                     securityFields |-> [none |-> {}], credential |-> "password"]

\* The panel's own table, for the protocols that Xray serves ...
XrayCapability ==
    LET transports == {"tcp", "ws", "grpc", "h2", "xhttp"}
        vmess == [OnlyTransport("ws") EXCEPT
                      !.networks = transports,
                      !.securities = [default |-> {"none", "tls"}],
                      !.defaultSecurity = "tls",
                      !.securityFields = [tls |-> xrayTlsFields],
                      !.credential = "uuid"]
        trojan == [vmess EXCEPT
                      !.defaultNetwork = "tcp",
                      !.securities = [n \in {"tcp", "grpc", "xhttp", "default"} |->
                                         IF n = "default" THEN {"none", "tls"}
                                                          ELSE inboundSecurities],
                      !.securityFields = [tls |-> xrayTlsFields, reality |-> realityFields],
                      !.credential = "password"]
        proxy == [OnlyTransport("tcp") EXCEPT !.credential = "username_password"]
    IN  [vless |-> [trojan EXCEPT !.defaultSecurity = "reality", !.credential = "uuid"],
         vmess |-> vmess,
         trojan |-> trojan,
         shadowsocks |-> [OnlyTransport("tcp") EXCEPT !.protocolFields = {"ss_method"},
                                                      !.credential = "none"],
         socks |-> proxy,
         http |-> proxy]

\* ... and for those that sing-box serves.
SingboxCapability ==
    LET udp == [OnlyTransport("udp") EXCEPT
                    !.securities = [default |-> {"tls"}],
                    !.defaultSecurity = "tls",
                    !.securityFields = [tls |-> singboxTlsFields]]
    IN  [hysteria2 |-> [udp EXCEPT
             !.protocolFields = {"hy2_mbps", "hy2_obfs", "hy2_obfs_password"}],
         tuic |-> [udp EXCEPT
             !.protocolFields = {"tuic_congestion_control", "tuic_zero_rtt"},
             !.credential = "credential_id_password"],
         shadowtls |-> [OnlyTransport("tcp") EXCEPT
             !.protocolFields = {"shadowtls_version", "tls_sni"}]]

Own == [p \in inboundProtocols |->
            IF p \in SingboxProtocols THEN SingboxCapability[p] ELSE XrayCapability[p]]

\* advanced_fields of the server's entry for a protocol (inbound_capability.go),
\* where own is the panel's entry.  All else is the same in both.
AdvancedOfServer(p, own) ==
    CASE p \in {"vless", "trojan"} -> TransportFields \cup xrayTlsFields \cup realityFields
      [] p = "vmess"               -> TransportFields \cup xrayTlsFields
      [] p \in {"hysteria2", "tuic"} -> singboxTlsFields \cup own.protocolFields
      [] OTHER                     -> own.protocolFields

AllSecurityFields(c) == UNION {c.securityFields[s] : s \in DOMAIN c.securityFields}

\* The server's entry as the panel takes it over, given the panel's own: the
\* security's fields are rebuilt, and every other advanced field becomes one of
\* the protocol.
normalizeCapabilityFromAPI(own, advanced) ==
    [own EXCEPT
        !.protocolFields = (advanced \cap @) \cup (advanced \ AllSecurityFields(own)),
        !.securityFields =
            [tls |-> IF "tls_cert" \in advanced THEN xrayTlsFields \cap advanced ELSE {},
             reality |-> IF "reality_target" \in advanced THEN realityFields \cap advanced
                         ELSE {}]]

Served == [p \in inboundProtocols |->
               normalizeCapabilityFromAPI(Own[p], AdvancedOfServer(p, Own[p]))]

\* activeInboundCapabilities[protocol].
Capability(p) == IF table = "own" THEN Own[p] ELSE Served[p]

Securities(c, n) == IF n \in DOMAIN c.securities THEN c.securities[n] ELSE c.securities["default"]

allowedInboundNetworks(p) == Capability(p).networks
allowedInboundSecurities(p, n) == Securities(Capability(p), n)
inboundCredentialType(p) == Capability(p).credential

-----------------------------------------------------------------------------
(* Combinations of protocol, transport and security, and their fields *)

preferredInboundSecurity(c, securities, current) ==
    IF c.defaultSecurity \in securities THEN c.defaultSecurity
    ELSE IF current = "reality" /\ "tls" \in securities THEN "tls"
    ELSE CHOOSE s \in securities : s = "none" \/ "none" \notin securities

\* Mutant of normalizeInboundCombination: the security stays when the transport changes.
normalizeNetworkOnly(combo) ==
    [combo EXCEPT !.network = IF @ \in Capability(combo.protocol).networks THEN @
                              ELSE Capability(combo.protocol).defaultNetwork]

\* A combination made to fit the capability c.
NormalizedBy(c, combo) ==
    LET network == IF combo.network \in c.networks THEN combo.network ELSE c.defaultNetwork
        securities == Securities(c, network)
    IN  [combo EXCEPT !.network = network,
                      !.security = IF @ \in securities THEN @
                                   ELSE preferredInboundSecurity(c, securities, @)]

normalizeInboundCombination(combo) == NormalizedBy(Capability(combo.protocol), combo)

FieldsOfTransport(n) ==
    CASE n \in {"ws", "h2"} -> WSFields
      [] n = "grpc"         -> GRPCFields
      [] n = "xhttp"        -> XHTTPFields
      [] OTHER              -> {}

FieldsOfSecurity(c, s) == IF s \in DOMAIN c.securityFields THEN c.securityFields[s] ELSE {}

\* The fields that a protocol of capability c uses in a combination.
EnabledBy(c, combo) ==
    c.protocolFields \cup FieldsOfSecurity(c, combo.security) \cup
        FieldsOfTransport(combo.network)

\* Mutant of enabledInboundAdvancedFields: h2 does not use the fields of ws.
enabledWithoutH2(combo) ==
    EnabledBy(Capability(combo.protocol), combo) \
        (IF combo.network = "h2" THEN WSFields ELSE {})

enabledInboundAdvancedFields(combo) == EnabledBy(Capability(combo.protocol), combo)

\* seededAdvancedValue is not blank.
Seeded == {"reality_target", "ss_method", "xhttp_mode", "hy2_mbps",
           "tuic_congestion_control", "shadowtls_version"}

Blank == [f \in advancedFields |-> "none"]

Combo(p, n, s) == [protocol |-> p, network |-> n, security |-> s]

\* The fields of sanitizeInboundFormValues for a normalised combination.
Sanitized(fields, combo) ==
    [f \in advancedFields |->
        IF f \notin enabledInboundAdvancedFields(combo) THEN "none"
        ELSE IF fields[f] = "none" /\ f \in Seeded THEN "seed" ELSE fields[f]]

-----------------------------------------------------------------------------
(* Templates *)

Template(p, n, s, sets, keeps) ==
    [combo |-> Combo(p, n, s), sets |-> sets, keeps |-> keeps]

\* inboundTemplates and templateAdvancedFields: a template's combination, the
\* fields it sets (generated values included) and those it leaves alone.
inboundTemplates ==
    [recommended |-> Template("vless", "tcp", "reality",
         {"reality_target", "reality_short_id", "tls_fingerprint"}, realityFields),
     compatible |-> Template("vmess", "ws", "tls",
         WSFields \cup {"tls_sni", "tls_alpn"}, WSFields \cup xrayTlsFields),
     password |-> Template("trojan", "tcp", "tls", {"tls_sni", "tls_alpn"}, xrayTlsFields),
     light |-> Template("shadowsocks", "tcp", "none", {"ss_method"}, {}),
     localSocks |-> Template("socks", "tcp", "none", {}, {}),
     localHttp |-> Template("http", "tcp", "none", {}, {}),
     udpFast |-> Template("hysteria2", "udp", "tls",
         {"tls_sni", "hy2_mbps", "hy2_obfs", "hy2_obfs_password"}, singboxTlsFields),
     lowLatency |-> Template("tuic", "udp", "tls",
         {"tls_sni", "tuic_congestion_control"}, singboxTlsFields),
     handshakeMask |-> Template("shadowtls", "tcp", "none", {"tls_sni", "shadowtls_version"}, {})]

\* The fields of applyInboundTemplate.
FieldsOfTemplate(fields, t) ==
    [f \in advancedFields |->
        IF f \in t.sets THEN "seed" ELSE IF f \in t.keeps THEN fields[f] ELSE "none"]

-----------------------------------------------------------------------------
(* Credentials of clients: a UUID, a generated secret or name, a typed value
   that the protocol accepts ("new") or one that is no UUID ("word"), or nothing *)

Credentials(uuid, id, password) == [uuid |-> uuid, id |-> id, password |-> password]

generatedClientCredentials(p) ==
    LET type == inboundCredentialType(p)
    IN  CASE type = "credential_id_password" -> Credentials("uuid", "uuid", "secret")
          [] type = "username_password"      -> Credentials("name", "name", "secret")
          [] type = "password"               -> Credentials("secret", "none", "secret")
          [] type = "none"                   -> Credentials("secret", "none", "none")
          [] OTHER                           -> Credentials("uuid", "uuid", "none")

Or(a, b) == IF a = "none" THEN b ELSE a

\* clientFormValues for a client that exists: entries made before there were
\* separate columns have everything in uuid.
clientFormValues(p, c) ==
    LET type == inboundCredentialType(p)
        id == Or(c.id, c.uuid)
        password == Or(c.password, c.uuid)
    IN  CASE type = "uuid"     -> Credentials(id, id, c.password)
          [] type = "password" -> Credentials(password, c.id, password)
          [] type = "none"     -> Credentials(c.uuid, "none", "none")
          [] OTHER             -> Credentials(id, id, c.password)

\* The credentials of buildClientPayload.
buildClientPayload(p, v) ==
    LET type == inboundCredentialType(p)
        id == Or(v.id, v.uuid)
    IN  CASE type = "password" -> Credentials(Or(v.password, v.uuid), v.id, v.password)
          [] type = "none"     -> Credentials(v.uuid, "none", v.password)
          [] type = "uuid"     -> Credentials(Or(id, v.password), id, v.password)
          [] OTHER             -> Credentials(id, id, v.password)

\* normalizeClientCredentials of the server, for a client that is made: what is
\* blank is taken from the other columns or generated.
normalizeClientCredentials(p, c) ==
    LET type == Own[p].credential
        id == Or(c.id, c.uuid)
        password == Or(c.password, "secret")
        secret == Or(Or(c.password, c.uuid), "secret")
    IN  CASE type = "uuid"     -> Credentials(Or(id, "uuid"), Or(id, "uuid"), "none")
          [] type = "password" -> Credentials(secret, Or(id, "uuid"), secret)
          [] type = "none"     -> Credentials(Or(c.uuid, "secret"), Or(c.uuid, "secret"), "none")
          [] type = "username_password" -> Credentials(Or(id, "name"), Or(id, "name"), password)
          [] OTHER             -> Credentials(Or(id, "uuid"), Or(id, "uuid"), password)

\* ValidateClientCredential of the server.
ValidClientCredential(p, c) ==
    LET type == Own[p].credential
        id == Or(c.id, c.uuid)
    IN  /\ type \in {"uuid", "credential_id_password"} => id \in {"uuid", "new"}
        /\ type = "username_password" => id # "none"
        /\ type \notin {"uuid", "none"} => c.password # "none"

-----------------------------------------------------------------------------
(* The form *)

\* The combinations that the server's table has, which are those of the panel's
\* own, and what the server asks of a combination besides.  The material of
\* REALITY is filled in where it is blank before this is asked.
Combos == UNION {UNION {{Combo(p, n, s) : s \in Securities(Own[p], n)} :
                          n \in Own[p].networks} : p \in inboundProtocols}

ValidateInboundCombination(combo, fields) ==
    /\ combo \in Combos
    /\ combo.protocol = "shadowtls" => fields["tls_sni"] # "none"

NoForm == [open |-> FALSE]

\* A stored inbound has values of its own in all fields that it uses.
Used(combo) == EnabledBy(Own[combo.protocol], combo)
Stored(combo) == [f \in advancedFields |-> IF f \in Used(combo) THEN "own" ELSE "none"]

Opened(exists, combo, fields) ==
    [open |-> TRUE, exists |-> exists, combo |-> normalizeInboundCombination(combo),
     fields |-> fields, client |-> generatedClientCredentials(combo.protocol),
     withClient |-> ~exists, opened |-> combo, edits |-> 0]

AtRest == form = NoForm /\ sent = NoForm /\ sentClient = NoForm

\* createDefaultInbound: the recommended template over seeds that it clears again.
OpenNew ==
    LET t == inboundTemplates.recommended IN
    /\ AtRest
    /\ form' = Opened(FALSE, t.combo, FieldsOfTemplate(Blank, t))
    /\ UNCHANGED <<table, keysAsked, sent, sentClient>>

OpenExisting(combo) ==
    /\ AtRest
    /\ form' = Opened(TRUE, combo, Stored(combo))
    /\ UNCHANGED <<table, keysAsked, sent, sentClient>>

Edit(next) ==
    /\ form.open /\ form.edits < MaxEdits
    /\ form' = [next EXCEPT !.edits = @ + 1]
    /\ UNCHANGED <<table, sent, sentClient>>

\* resetInitialClientForProtocol, called when the protocol of a new inbound changes.
ClientFor(p) ==
    IF ~form.exists /\ p # form.combo.protocol THEN generatedClientCredentials(p)
                                               ELSE form.client

ApplyTemplate(id) ==
    LET t == inboundTemplates[id] IN
    /\ UNCHANGED keysAsked
    /\ Edit([form EXCEPT !.combo = normalizeInboundCombination(t.combo),
                         !.fields = FieldsOfTemplate(@, t),
                         !.client = ClientFor(t.combo.protocol)])

\* sanitizeInboundFormValues: the values of the form with a change.
Sanitize(combo, client) ==
    LET next == normalizeInboundCombination(combo) IN
    /\ UNCHANGED keysAsked
    /\ Edit([form EXCEPT !.combo = next, !.fields = Sanitized(@, next), !.client = client])

\* Mutant of ChooseProtocol: the first client keeps its credentials.
ChooseProtocolOnly(p) ==
    LET c == Capability(p)
    IN  Sanitize(Combo(p, c.defaultNetwork, c.defaultSecurity), form.client)

ChooseProtocol(p) ==
    LET c == Capability(p)
    IN  Sanitize(Combo(p, c.defaultNetwork, c.defaultSecurity), ClientFor(p))

ChooseNetwork(n) ==
    /\ form.open /\ n \in allowedInboundNetworks(form.combo.protocol)
    /\ Sanitize([form.combo EXCEPT !.network = n], form.client)

ChooseSecurity(s) ==
    /\ form.open /\ s \in allowedInboundSecurities(form.combo.protocol, form.combo.network)
    /\ Sanitize([form.combo EXCEPT !.security = s], form.client)

\* The fields that the form shows an input for.
Shown(combo) ==
    LET enabled == enabledInboundAdvancedFields(combo)
        ofSecurity == CASE combo.security = "reality" ->
                               {"reality_target", "reality_keys", "tls_fingerprint"}
                        [] combo.security = "tls" -> {"tls_cert"} \cup
                               (enabled \cap {"tls_fingerprint", "tls_alpn"})
                        [] OTHER -> {}
        ofProtocol == CASE combo.protocol = "hysteria2" ->
                               {"hy2_mbps", "hy2_obfs", "hy2_obfs_password"}
                        [] combo.protocol = "tuic" ->
                               {"tuic_congestion_control", "tuic_zero_rtt"}
                        [] combo.protocol = "shadowtls" -> {"shadowtls_version"}
                        [] OTHER -> {}
    IN  ofSecurity \cup (enabled \cap (ofProtocol \cup TransportFields \cup
                                       {"tls_sni", "reality_short_id", "ss_method"}))

\* The administrator types into a field that is shown, or blanks it.
Type(f, value) ==
    /\ form.open /\ f \in Shown(form.combo)
    /\ UNCHANGED keysAsked
    /\ Edit([form EXCEPT !.fields[f] = value])

\* attachSettingCert.  same: the host is the server name that was there before;
\* domain: the settings have a domain for the certificate.
AttachCert(same, domain) ==
    LET f == form.fields
        syncs == /\ form.combo.network \in {"ws", "h2"}
                 /\ \/ f["ws_host"] \in {"none", "seed"}
                    \/ f["ws_host"] = f["tls_sni"] /\ (same \/ f["ws_host"] = "cert")
    IN  /\ form.open /\ form.combo.security = "tls"
        /\ UNCHANGED keysAsked
        /\ Edit([form EXCEPT !.fields["tls_cert"] = "cert",
                             !.fields["tls_sni"] = IF domain THEN "cert" ELSE @,
                             !.fields["ws_host"] = IF domain /\ syncs THEN "cert" ELSE @])

\* clearRealitySettings.
ClearReality ==
    /\ form.open /\ form.combo.security = "reality"
    /\ UNCHANGED keysAsked
    /\ Edit([form EXCEPT !.fields = [f \in advancedFields |->
           IF f \in realityFields \ {"tls_fingerprint"} THEN "none" ELSE @[f]]])

\* generateRealityKeys asks the server ...
AskKeys ==
    /\ form.open /\ form.combo.security = "reality"
    /\ keysAsked' = keysAsked + 1
    /\ Edit(form)

\* ... and sets the pair whatever the form has become since.
KeysArrive ==
    /\ form.open /\ keysAsked > 0
    /\ keysAsked' = keysAsked - 1
    /\ form' = [form EXCEPT !.fields["reality_keys"] = "seed"]
    /\ UNCHANGED <<table, sent, sentClient>>

\* The credentials that CredentialFields has an input for.
CredentialInputs(p) ==
    LET type == inboundCredentialType(p)
    IN  CASE type = "uuid"     -> {"uuid"}
          [] type = "password" -> {"password"}
          [] type = "none"     -> {}
          [] OTHER             -> {"id", "password"}

\* The administrator types one of the first client's credentials, or blanks it ...
TypeCredential(k, value) ==
    /\ form.open /\ ~form.exists /\ form.withClient
    /\ k \in CredentialInputs(form.combo.protocol)
    /\ UNCHANGED keysAsked
    /\ Edit([form EXCEPT !.client[k] = value])

\* ... or has all of them generated (regenerateInitialClientCredential).
RegenerateClient ==
    /\ form.open /\ ~form.exists /\ form.withClient
    /\ UNCHANGED keysAsked
    /\ Edit([form EXCEPT !.client = generatedClientCredentials(form.combo.protocol)])

ToggleClient ==
    /\ form.open /\ ~form.exists
    /\ UNCHANGED keysAsked
    /\ Edit([form EXCEPT !.withClient = ~@])

\* applyInboundCapabilitiesFromAPI.
TableArrives ==
    /\ table = "own" /\ sent = NoForm
    /\ table' = "served"
    /\ UNCHANGED <<form, keysAsked, sent, sentClient>>

\* Mutant of buildFullInboundPayload: fields of other combinations are sent as they are.
buildFullInboundPayloadAsIs(f) ==
    [combo |-> normalizeInboundCombination(f.combo), fields |-> f.fields,
     client |-> buildClientPayload(f.combo.protocol, f.client)]

buildFullInboundPayload(f) ==
    LET combo == normalizeInboundCombination(f.combo)
    IN  [combo |-> combo,
         fields |-> [k \in advancedFields |->
             IF k \in enabledInboundAdvancedFields(combo) THEN f.fields[k] ELSE "none"],
         client |-> buildClientPayload(f.combo.protocol, f.client)]

\* The form is unmounted: an answer that comes later reaches nothing.
Submit ==
    /\ form.open
    /\ sent' = [open |-> TRUE, payload |-> buildFullInboundPayload(form),
                from |-> form, shown |-> Shown(form.combo)]
    /\ form' = NoForm
    /\ keysAsked' = 0
    /\ UNCHANGED <<table, sentClient>>

\* ClientModal: a client that the server has accepted is opened, the inputs in
\* typed get a new value, and it is saved.
SaveClient(p, c, typed) ==
    LET values == clientFormValues(p, c)
        changed == [k \in DOMAIN values |-> IF k \in typed THEN "new" ELSE values[k]]
    IN  /\ AtRest
        /\ ValidClientCredential(p, c)
        /\ typed \subseteq CredentialInputs(p)
        /\ sentClient' = [open |-> TRUE, protocol |-> p, before |-> c, typed |-> typed,
                          payload |-> buildClientPayload(p, changed)]
        /\ UNCHANGED <<table, form, keysAsked, sent>>

FormInit == table = "own" /\ form = NoForm /\ keysAsked = 0 /\ sent = NoForm
            /\ sentClient = NoForm

FormNext ==
    \/ OpenNew
    \/ \E combo \in Combos : OpenExisting(combo)
    \/ \E id \in DOMAIN inboundTemplates : ApplyTemplate(id)
    \/ \E p \in inboundProtocols : ChooseProtocol(p)
    \/ \E n \in {"tcp", "ws", "grpc", "h2", "xhttp", "udp"} : ChooseNetwork(n)
    \/ \E s \in inboundSecurities : ChooseSecurity(s)
    \/ form.open /\ \E f \in Shown(form.combo) : \E value \in {"own", "none"} : Type(f, value)
    \/ \E same, domain \in BOOLEAN : AttachCert(same, domain)
    \/ /\ AtRest
       /\ \E p \in inboundProtocols : \E uuid \in {"none", "uuid", "name", "secret"} :
              \E id \in {"none", "uuid", "name"} : \E password \in {"none", "secret"} :
                  \E typed \in SUBSET {"uuid", "id", "password"} :
                      SaveClient(p, Credentials(uuid, id, password), typed)
    \/ \E k \in {"uuid", "id", "password"} : \E value \in {"none", "new", "word"} :
           TypeCredential(k, value)
    \/ RegenerateClient
    \/ ClearReality \/ AskKeys \/ KeysArrive \/ ToggleClient \/ TableArrives \/ Submit

FormSpec == FormInit /\ [][FormNext]_formVars

-----------------------------------------------------------------------------
(* Properties *)

\* Fields have values of the four kinds, and the form is in a combination of
\* the panel's table.
FormTypeOK ==
    /\ table \in {"own", "served"}
    /\ keysAsked \in 0..MaxEdits
    /\ form.open => /\ form.fields \in [advancedFields -> {"none", "seed", "own", "cert"}]
                    /\ form.combo \in Combos

\* What the form sends is refused only for an input that it shows: the server
\* name of a ShadowTLS inbound that is blank (which the form neither fills in nor
\* asks for), or an id of the first client that was typed and is no UUID.  It is
\* never refused for its combination, nor for a value that the form has from
\* before a change of the protocol (ValidateInboundCombination,
\* normalizeClientCredentials and ValidateClientCredential).  Left out is what
\* depends on other rows: a port or a credential that is taken, and the clients
\* of a stored inbound whose protocol is changed.
RefusedForAnInput ==
    sent.open =>
        LET combo == sent.payload.combo
            client == normalizeClientCredentials(combo.protocol, sent.payload.client)
        IN  /\ combo \in Combos
            /\ \/ ValidateInboundCombination(combo, sent.payload.fields)
               \/ "tls_sni" \in sent.shown /\ sent.from.fields["tls_sni"] = "none"
            /\ sent.from.withClient =>
                   \/ ValidClientCredential(combo.protocol, client)
                   \/ "id" \in CredentialInputs(combo.protocol) /\ sent.from.client.id = "word"

\* Saving an inbound without a change in the form keeps every value that its
\* combination uses, whichever table is in force when it is opened or saved;
\* saving a client so keeps its credentials, also those of rows that have
\* everything in uuid, and sends what the server accepts.
UntouchedIsKept ==
    /\ sent.open /\ sent.from.exists /\ sent.from.edits = 0 =>
           /\ sent.payload.combo = sent.from.opened
           /\ \A f \in Used(sent.from.opened) : sent.payload.fields[f] = "own"
    /\ sentClient.open =>
           LET type == Own[sentClient.protocol].credential
               before == sentClient.before
               after == sentClient.payload
           IN  sentClient.typed = {} =>
               /\ ValidClientCredential(sentClient.protocol, after)
               /\ type \notin {"none", "password"} =>
                      Or(after.id, after.uuid) = Or(before.id, before.uuid)
               /\ type \notin {"none", "uuid"} => after.password = before.password

\* Nothing is sent that the form does not show: a value from before a change of
\* protocol or security, or a key pair that comes late, does not go along.
NothingHiddenIsSent ==
    sent.open => \A f \in advancedFields \ sent.shown : sent.payload.fields[f] = "none"

\* The form sends what it shows, in both directions.
SentAsShown == UntouchedIsKept /\ NothingHiddenIsSent

=============================================================================
