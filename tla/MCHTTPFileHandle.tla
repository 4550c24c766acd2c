-------------------------- MODULE MCHTTPFileHandle --------------------------
(* HTTPFileHandle for TLC.                                                 *)
EXTENDS HTTPFileHandle

\* The date of the file matters only to a server that compares it, and only if
\* it has no strong ETag; the client's comparison takes no notice of the kind
\* of ETag.
DistinctServers ==
    {s \in ServerTraits : /\ s.dates => s.conditional /\ s.etag # "strong"
                          /\ s.etag = "weak" => s.conditional}

\* Servers that support ranges, with every kind of validator.  A HEAD request
\* may fail with each of them.
RangeServers == {s \in DistinctServers : s.ranges /\ s.lengths /\ s.head}

\* Servers that ignore the Range header, answer HEAD or not, and give lengths
\* or not.
PlainServers == {s \in DistinctServers : ~s.ranges}

\* The caller gives up when a call fails.
Caller == {c \in ClientTraits : ~c.goes_on /\ c.global_cache /\ c.etag_checks}

BufferedClients == {c \in Caller : ~c.force_download /\ ~c.skip_buffer /\ c.auto_fallback}

CurlClients == {c \in ClientTraits : ~c.goes_on /\ ~c.streaming /\ c.etag_checks}

\* A caller that reads on after a failure, and a server that keeps the file.
PersistentClient ==
    {c \in ClientTraits : c.goes_on /\ c.global_cache /\ c.etag_checks /\ c.auto_fallback
                          /\ ~c.streaming /\ ~c.force_download /\ ~c.skip_buffer}
StrongServer == {s \in RangeServers : s.conditional /\ s.etag = "strong"
                                    /\ s.head /\ ~s.chunked}

\* The httplib client, told to download files as a whole.
HttplibClient ==
    {c \in Caller : c.streaming /\ c.force_download /\ ~c.skip_buffer /\ c.auto_fallback}

Situation(servers, clients, sizes, threshold, max_opens, max_reads) ==
    [servers |-> servers, clients |-> clients, sizes |-> sizes,
     threshold |-> threshold, max_opens |-> max_opens, max_reads |-> max_reads]

\* One handle that reads three times through the buffer, and two handles one
\* after the other that fall back to full downloads.
RangesAndFallback ==
    [ranges   |-> Situation(RangeServers, BufferedClients, {2, 4}, 0, 1, 3),
     fallback |-> Situation(PlainServers, CurlClients, {1, 3}, 2, 2, 2)]

\* A forced download with the streaming client.
Httplib == [httplib |-> Situation(StrongServer, HttplibClient, {2}, 0, 1, 1)]

\* Reading on after a Read failed.
GoesOn == [goes_on |-> Situation(StrongServer, PersistentClient, {4}, 0, 1, 4)]

\* Three handles of a file whose length HEAD does not tell: the first downloads
\* it, the second finds the download, and the third, in a later query, what the
\* second put into the global metadata cache.
SilentServer == {s \in DistinctServers : s.ranges /\ ~s.lengths /\ s.head /\ ~s.chunked
                                        /\ s.conditional /\ s.etag = "strong"}
SharedCacheClients == {c \in CurlClients : c.global_cache /\ ~c.force_download /\ c.auto_fallback}
Unvalidated == [blind |-> Situation(SilentServer, SharedCacheClients, {2}, 0, 3, 2)]

\* Conditional reads: with a server that tells versions apart a handle delivers
\* bytes of one version, whatever it knows of the file itself.
OneVersionOfServer == ServerValidates => \A v, w \in seen : v = w
=============================================================================
