SPECIFICATION Spec
CONSTANTS
    u1 = u1
    u2 = u2
    g1 = g1
    g2 = g2
    ann = ann
    bob = bob
    mail1 = mail1
    mail2 = mail2
    pw1 = pw1
    pw2 = pw2
    j1 = j1
    j2 = j2
    w1 = w1
    w2 = w2
    None = None
    Workers = {w1, w2}
    Users = {u1, u2}
    Groups = {g1, g2}
    Names = {ann, bob}
    Mails = {mail1, mail2}
    NewNames = {bob}
    Passwords = {pw1, pw2}
    Jars = {j1, j2}
    MaxRequests = 5
    MaxExpiries = 1
SYMMETRY Symmetry
PROPERTIES
    ClosedSessionsStayClosed
    DeletedUsersActNoMore
    ImplementsSessions
CHECK_DEADLOCK FALSE
