------------------------------ MODULE DnsTable ------------------------------
(***************************************************************************)
(* The dns table: AddDns in database/database.go, GetDomainForIP in        *)
(* database/dns.go.  A table maps the (ip, domain) pairs it has a row for  *)
(* to the second of the last answer that gave the ip for the domain.       *)
(***************************************************************************)
EXTENDS Integers

NoRows == [k \in {} |-> 0]

(* INSERT ... ON CONFLICT DO NOTHING                                       *)
AddDnsOnce(table, k, now) ==
  [j \in DOMAIN table \union {k} |-> IF j \in DOMAIN table THEN table[j] ELSE now]

(* INSERT ... ON CONFLICT DO UPDATE SET tstamp = datetime()                *)
AddDns(table, k, now) ==
  [j \in DOMAIN table \union {k} |-> IF j = k THEN now ELSE table[j]]

(* What ORDER BY tstamp DESC LIMIT 1 may yield: time stamps have a         *)
(* resolution of one second, so it may be more than one.  No domain, if    *)
(* the ip is unknown.                                                      *)
GetDomainForIP(table, ip) ==
  LET rows == {k \in DOMAIN table : k[1] = ip}
  IN  {k[2] : k \in {j \in rows : \A l \in rows : table[l] <= table[j]}}
=============================================================================
