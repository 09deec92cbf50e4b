----------------------------- MODULE ClientPool -----------------------------
(***************************************************************************)
(* rpc::ClientPool (rpc/client.cc): parallel_connections_ clients per      *)
(* address, made by the first get_client and closed by the destructor,     *)
(* with the two sockets that Client::connect opens.  get_client holds l_   *)
(* for as long as it connects; Client::close is one step here (its races   *)
(* are in Client).                                                         *)
(***************************************************************************)
EXTENDS Integers, Sequences, FiniteSets

CONSTANTS
    Addrs,
    parallel_connections_,
    MaxClients,             \* bound on the clients ever made
    NoAddr

ASSUME PoolAssumption == /\ parallel_connections_ \in Nat \ {0}
                         /\ MaxClients \in Nat
                         /\ NoAddr \notin Addrs

Clients == 1 .. MaxClients

VARIABLES
    cache_,        \* cache_[a]: the clients of address a, or <<>>
    making,        \* the address get_client is connecting to, l_ held, or NoAddr
    fresh,         \* parallel_clients, its new array
    status_,       \* status_[c]: "none", "NEW", "CONNECTED", "CLOSED" or "released"
    sock_,         \* sock_[c]: the TCP socket, "none", "open" or "closed"
    udp_sock_,     \* udp_sock_[c]: the UDP socket
    got,           \* the clients get_client has returned
    destroyed

poolvars == <<cache_, making, fresh, status_, sock_, udp_sock_, got, destroyed>>

PoolInit == /\ cache_ = [a \in Addrs |-> <<>>] /\ making = NoAddr /\ fresh = <<>>
            /\ status_ = [c \in Clients |-> "none"]
            /\ sock_ = [c \in Clients |-> "none"] /\ udp_sock_ = [c \in Clients |-> "none"]
            /\ got = {} /\ destroyed = FALSE

\* pollmgr_->remove and ::close of a connected client, then release.
CloseAndRelease(C) ==
    /\ sock_' = [c \in Clients |-> IF c \in C /\ status_[c] = "CONNECTED" THEN "closed" ELSE sock_[c]]
    /\ status_' = [c \in Clients |-> IF c \in C THEN "released" ELSE status_[c]]

\* get_client of a known address: any of its clients, whatever their status.
GetCached(a) ==
    /\ ~destroyed /\ making = NoAddr /\ cache_[a] # <<>>
    /\ \E i \in 1 .. parallel_connections_ : got' = got \cup {cache_[a][i]}
    /\ UNCHANGED <<cache_, making, fresh, status_, sock_, udp_sock_, destroyed>>

GetNew(a) ==
    /\ ~destroyed /\ making = NoAddr /\ cache_[a] = <<>>
    /\ making' = a /\ fresh' = <<>>
    /\ UNCHANGED <<cache_, status_, sock_, udp_sock_, got, destroyed>>

\* One turn of the loop: a new client, and connect().  When only udp_connect fails,
\* err_out closes the TCP socket.
Connect(tcp, udp) ==
    /\ making # NoAddr /\ Len(fresh) < parallel_connections_
    /\ \A i \in 1 .. Len(fresh) : status_[fresh[i]] # "NEW"
    /\ \E c \in Clients :
        /\ status_[c] = "none" /\ \A d \in Clients : d < c => status_[d] # "none"
        /\ fresh' = Append(fresh, c)
        /\ status_' = [status_ EXCEPT ![c] = IF tcp /\ udp THEN "CONNECTED" ELSE "NEW"]
        /\ sock_' = [sock_ EXCEPT ![c] = IF ~tcp THEN "none" ELSE IF udp THEN "open" ELSE "closed"]
        /\ udp_sock_' = [udp_sock_ EXCEPT ![c] = IF tcp /\ udp THEN "open" ELSE "none"]
    /\ UNCHANGED <<cache_, making, got, destroyed>>

Failed == \E i \in 1 .. Len(fresh) : status_[fresh[i]] = "NEW"

\* All connected: into the cache, and one is returned.
Insert ==
    /\ making # NoAddr /\ Len(fresh) = parallel_connections_ /\ ~Failed
    /\ cache_' = [cache_ EXCEPT ![making] = fresh]
    /\ \E i \in 1 .. parallel_connections_ : got' = got \cup {fresh[i]}
    /\ making' = NoAddr /\ fresh' = <<>>
    /\ UNCHANGED <<status_, sock_, udp_sock_, destroyed>>

\* Mutant: "while (i > 0)" forgets the first client.
FromSecond == {fresh[i] : i \in 2 .. Len(fresh)}

\* "while (i >= 0)": the client that failed and those before it
ToClose == {fresh[i] : i \in 1 .. Len(fresh)}

GiveUp ==
    /\ making # NoAddr /\ Failed
    /\ CloseAndRelease(ToClose)
    /\ making' = NoAddr /\ fresh' = <<>>
    /\ UNCHANGED <<cache_, udp_sock_, got, destroyed>>

\* The connection ends: the poll thread closes the client, which stays cached.
Disconnected(c) ==
    /\ status_[c] = "CONNECTED"
    /\ status_' = [status_ EXCEPT ![c] = "CLOSED"]
    /\ sock_' = [sock_ EXCEPT ![c] = "closed"]
    /\ UNCHANGED <<cache_, making, fresh, udp_sock_, got, destroyed>>

Cached == UNION {{cache_[a][i] : i \in 1 .. Len(cache_[a])} : a \in Addrs}

DestroyPool ==
    /\ ~destroyed /\ making = NoAddr
    /\ CloseAndRelease(Cached)
    /\ destroyed' = TRUE /\ got' = {}
    /\ UNCHANGED <<cache_, making, fresh, udp_sock_>>

PoolNext == \/ \E a \in Addrs : GetCached(a) \/ GetNew(a)
            \/ \E tcp, udp \in BOOLEAN : Connect(tcp, udp)
            \/ Insert \/ GiveUp \/ DestroyPool
            \/ \E c \in Clients : Disconnected(c)

\* Every client the pool has made is cached or released, a failed get_client
\* included, and a released one has no TCP socket left.  A UDP socket is never
\* closed after a successful connect: each such client leaves one behind.
ClientsAccounted ==
    /\ making = NoAddr => \A c \in Clients :
           /\ status_[c] \in {"CONNECTED", "CLOSED"} => c \in Cached /\ ~destroyed
           /\ status_[c] # "NEW"
    /\ \A c \in Clients : status_[c] = "released" => sock_[c] # "open"
    /\ got \subseteq Cached
=============================================================================
