------------------------ MODULE ConnectionContextStore ------------------------
(***************************************************************************)
(* The files a Flipper connection needs and the signing request kept in    *)
(* memory, as operators that take a store and return the next one.         *)
(*                                                                         *)
(* A private key, a signing request made with it and a certificate issued  *)
(* for that request are named by one element of Key.  The desktop delivers *)
(* the CA certificate and the device certificate together.  The file with  *)
(* the device id decides nothing and is left out.                          *)
(***************************************************************************)

CONSTANTS
    Key,             \* the key pairs that may be generated
    NoKey            \* an absent or empty file, an empty string

ASSUME KeyAssumption == NoKey \notin Key

ContextStore ==
    [ csr     : Key \cup {NoKey},    \* the member csr
      csrFile : Key \cup {NoKey},    \* app.csr
      key     : Key \cup {NoKey},    \* privateKey.pem
      cert    : Key \cup {NoKey} ]   \* sonarCA.crt and device.crt

\* The store of a device that has never talked to a desktop.
EmptyStore == [csr |-> NoKey, csrFile |-> NoKey, key |-> NoKey, cert |-> NoKey]

HasRequiredFiles(s) == s.cert # NoKey /\ s.key # NoKey

\* Mutant: the files are deleted and the request in memory is kept.
ResetFilesOnly(s) == [EmptyStore EXCEPT !.csr = s.csr]

ResetState(s) == EmptyStore

\* The first half of getCertificateSigningRequest: the request in memory, or
\* else the one on disk.
Loaded(s) == IF s.csr = NoKey THEN [s EXCEPT !.csr = s.csrFile] ELSE s

\* The second half, when neither is there: a new pair replaces everything.
Generated(s, k) == [ResetState(s) EXCEPT !.csr = k, !.csrFile = k, !.key = k]

\* The process dies while it writes the pair: the key is on disk, the request
\* is not.
HalfGenerated(s, k) == [ResetState(s) EXCEPT !.key = k]

\* getSSLContext throws when a file is missing or the certificate does not
\* belong to the key.
SSLContextLoads(s) == HasRequiredFiles(s) /\ s.cert = s.key

\* A new process finds the files and nothing in memory.
Reopened(s) == [s EXCEPT !.csr = NoKey]
=============================================================================
