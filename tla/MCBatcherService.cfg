CONSTANTS
    c1 = c1
    c2 = c2
    m1 = m1
    m2 = m2
    m3 = m3
    m4 = m4
    m5 = m5
    m6 = m6
    x = x
    y = y
    z = z
    Free = Free
    Clients = {c1, c2}
    Messages = {m1, m2, m3, m4, m5}
    sends <- MCTwoSenders
    content <- MCContent
    acceptable <- MCAcceptable
    Sizes = {3, 5}
    max_batch_size = 10
    min_batch_len = 2
    max_block_interval = 2
    MaxBlock = 2
    Faults = {"s3", "tx", "events", "stream", "restart"}
SPECIFICATION Spec
PROPERTY ImplementsService
CHECK_DEADLOCK FALSE
