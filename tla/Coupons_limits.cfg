SPECIFICATION CouponsSpec
CONSTANTS
    c1 = c1 c2 = c2 c3 = c3 c4 = c4 ann = ann tel1 = tel1 tel2 = tel2 h1 = h1 h2 = h2
    Unknown = Unknown
    Orders = {c1, c2, c3, c4}
    Accounts = {ann}
    Phones = {tel1, tel2}
    AccountOf <- MCAccountOf
    PhoneOf <- MCPhoneOf
    MaxUsesTotal = 2
    MaxUsesPerCustomer = 1
    Staff = {h1, h2}
SYMMETRY StaffSymmetry
INVARIANTS CouponsTypeOK UsesCounted TotalKept CustomerKept CountsUnlessOvertaken
