CONSTANTS
    c1 = c1  c2 = c2  ua = ua  ub = ub  p1 = p1
    NoUser = NoUser  NoPlaylist = NoPlaylist  NoBody = NoBody  NoArg = NoArg
    Conn <- MCConn
    User <- MCUser
    Playlist <- MCPlaylist
    Users0 <- MCUsers0
    Rights0 <- MCRights0
    DefaultRights <- MCDefaultRights
    NewRights <- MCNewRights
    Lines <- LinesPipelined
    MaxLines = 3
    MaxInbuf = 2
    Listeners = {"privileged", "unix", "tcp"}
    RemoteUserman = FALSE
    HlsEnabled = TRUE
SPECIFICATION Spec
\* Clients send at most MaxLines lines; the server then idles in select().
CHECK_DEADLOCK FALSE
SYMMETRY ConnSymmetry
INVARIANTS RepliesInOrder
